---- MODULE Spec2Model ----
(***************************************************************************)
(* db-schema-sync: the synchronization engine (cmd/db-schema-sync).       *)
(*                                                                         *)
(* Engine instances poll an object store for versioned schema files under  *)
(* a path prefix, resolve the highest version, and apply it to one target  *)
(* database through an external differ (psqldef), guarded by a PostgreSQL  *)
(* session-scoped advisory lock.  A completion marker in the store records *)
(* a successful application.                                               *)
(*                                                                         *)
(* Strings of the program (version tokens, file names, path prefixes) are  *)
(* TLA+ strings; Chars gives their characters where the code looks inside  *)
(* them (version parsing, byte-wise comparison).  An object key is the     *)
(* sequence of its "/"-separated segments.                                 *)
(***************************************************************************)
EXTENDS Integers, Sequences, FiniteSets, TLC

VARIABLES
    s3,                       \* the bucket: set of object keys present
    pgLocks,                  \* advisory locks held: set of <<lock id, session>>
    budget,                   \* environment faults (errors, crashes) still to be injected
    cfg,                      \* per process: command-line configuration
    pc,                       \* per process: position in runSync
    lastAppliedVersion,       \* per process: in-memory state (main.go:499)
    consecutiveFailureCount,  \* per process: in-memory state (main.go:500)
    loc,                      \* per process: runSync's local variables
    locker,                   \* per process: the AdvisoryLocker's connection, "none" | "open"
    cyc,                      \* per process: what the current / last cycle did (observation)
    hist,                     \* what the fleet has done so far (observation)
    call                      \* a function of the engine called on its own: arguments, result

vars == <<s3, pgLocks, budget, cfg, pc, lastAppliedVersion,
          consecutiveFailureCount, loc, locker, cyc, hist, call>>

-----------------------------------------------------------------------------
(* Bounds of the model *)

\* Environment faults (store / database / differ errors, process crashes)
\* injected in one behaviour of the fleet.
MaxFaults == 1

\* The same, in a behaviour of a single process.
SoloFaults == 3

\* Cap on the consecutive-failure counter: a cycle that would fail beyond it
\* is not started.
MaxFailureCount == 4

\* The engine instances (processes) targeting the same database.
Instances == {1, 2}

\* Keys in a listing handed to the resolver on its own.
MaxListing == 3

-----------------------------------------------------------------------------
(* Program constants *)

\* lock.go:13  const AdvisoryLockID int64 = 0x4442534348454D41 ("DBSCHEMA")
AdvisoryLockID == "DBSCHEMA"

\* main.go:503
maxConsecutiveFailures == 3

\* main.go:423, 426 (defaults) and main.go:1200
SchemaFile == "schema.sql"
CompletedFile == "completed"
ExportedFile == "exported.sql"

-----------------------------------------------------------------------------
(* Strings: characters and byte order *)

\* The characters of a string, one by one.
Chars(s) == [i \in 1..Len(s) |-> SubSeq(s, i, i)]

\* The characters used, in ASCII order.
AsciiOrder == <<"-", ".", "/", "0", "1", "2", "3", "4", "5", "6", "7", "8", "9",
                "a", "b", "c", "d", "e", "f", "g", "h", "i", "j", "k", "l", "m",
                "n", "o", "p", "q", "r", "s", "t", "u", "v", "w", "x", "y", "z", "~">>

Ord(c) == CHOOSE i \in 1..Len(AsciiOrder) : AsciiOrder[i] = c

Digits == {"0", "1", "2", "3", "4", "5", "6", "7", "8", "9"}

\* Go's string comparison v1 < v2: byte-wise lexicographic.
RECURSIVE BytesLess(_, _)
BytesLess(a, b) ==
    IF b = <<>> THEN FALSE
    ELSE IF a = <<>> THEN TRUE
    ELSE IF Ord(a[1]) # Ord(b[1]) THEN Ord(a[1]) < Ord(b[1])
    ELSE BytesLess(Tail(a), Tail(b))

-----------------------------------------------------------------------------
(* path.Base, path.Dir, path.Join on segment sequences.                    *)
(* <<>> is the path "." : path.Dir of a key without a directory.           *)

PathBase(p) ==
    IF p = <<>> THEN "." ELSE IF p = <<"">> THEN "/" ELSE p[Len(p)]

PathDir(p) == IF p = <<>> THEN <<>> ELSE SubSeq(p, 1, Len(p) - 1)

PathJoin(a, b) == a \o b

HasPrefix(key, prefix) ==
    /\ Len(key) > Len(prefix)
    /\ SubSeq(key, 1, Len(prefix)) = prefix

-----------------------------------------------------------------------------
(* version.NewVersion and Version.Compare (hashicorp/go-version), as the   *)
(* engine uses them: an optional "v", dot-separated decimal segments       *)
(* padded to three, an optional pre-release.                               *)

NoVersion == [ok |-> FALSE, segs |-> <<>>, pre |-> <<>>]

\* Split a character sequence at every "." .
RECURSIVE SplitDots(_, _)
SplitDots(cs, cur) ==
    IF cs = <<>> THEN <<cur>>
    ELSE IF cs[1] = "." THEN <<cur>> \o SplitDots(Tail(cs), <<>>)
    ELSE SplitDots(Tail(cs), Append(cur, cs[1]))

\* The longest prefix of digits and dots.
RECURSIVE NumericPrefixLen(_)
NumericPrefixLen(cs) ==
    IF cs = <<>> \/ cs[1] \notin (Digits \cup {"."}) THEN 0
    ELSE 1 + NumericPrefixLen(Tail(cs))

RECURSIVE DecimalValue(_, _)
DecimalValue(ds, acc) ==
    IF ds = <<>> THEN acc ELSE DecimalValue(Tail(ds), acc * 10 + (Ord(ds[1]) - Ord("0")))

AllDigits(part) == part # <<>> /\ \A k \in 1..Len(part) : part[k] \in Digits

ValidPre(pre) ==
    LET parts == SplitDots(pre, <<>>)
    IN  \A k \in 1..Len(parts) :
            /\ parts[k] # <<>>
            /\ \A j \in 1..Len(parts[k]) :
                  parts[k][j] \in Digits \cup {"-", "~"} \cup
                      {"a", "b", "c", "d", "e", "f", "g", "h", "i", "j", "k", "l", "m",
                       "n", "o", "p", "q", "r", "s", "t", "u", "v", "w", "x", "y", "z"}

PadSegments(segs) ==
    segs \o [k \in 1..(IF Len(segs) < 3 THEN 3 - Len(segs) ELSE 0) |-> 0]

NewVersion(s) ==
    LET cs    == Chars(s)
        body  == IF cs # <<>> /\ cs[1] = "v" THEN Tail(cs) ELSE cs
        n     == NumericPrefixLen(body)
        parts == SplitDots(SubSeq(body, 1, n), <<>>)
        rest  == SubSeq(body, n + 1, Len(body))
        pre   == IF rest # <<>> /\ rest[1] = "-" THEN Tail(rest) ELSE rest
    IN  IF n = 0 \/ \E k \in 1..Len(parts) : ~AllDigits(parts[k])
        THEN NoVersion
        ELSE IF rest # <<>> /\ (rest[1] \in Digits \/ ~ValidPre(pre))
        THEN NoVersion
        ELSE [ok   |-> TRUE,
              segs |-> PadSegments([k \in 1..Len(parts) |-> DecimalValue(parts[k], 0)]),
              pre  |-> pre]

AllZero(segs, from) == \A k \in from..Len(segs) : segs[k] = 0

\* comparePart of go-version: one dot-separated part of a pre-release.
ComparePart(a, b) ==
    IF a = b THEN 0
    ELSE IF a = <<>> THEN (IF AllDigits(b) THEN -1 ELSE 1)
    ELSE IF b = <<>> THEN (IF AllDigits(a) THEN 1 ELSE -1)
    ELSE IF AllDigits(a) /\ ~AllDigits(b) THEN -1
    ELSE IF ~AllDigits(a) /\ AllDigits(b) THEN 1
    ELSE IF ~AllDigits(a) /\ ~AllDigits(b) THEN (IF BytesLess(b, a) THEN 1 ELSE -1)
    ELSE IF DecimalValue(a, 0) > DecimalValue(b, 0) THEN 1
    ELSE -1

RECURSIVE ComparePartsFrom(_, _, _)
ComparePartsFrom(pa, pb, k) ==
    IF k > Len(pa) /\ k > Len(pb) THEN 0
    ELSE LET a == IF k <= Len(pa) THEN pa[k] ELSE <<>>
             b == IF k <= Len(pb) THEN pb[k] ELSE <<>>
             c == ComparePart(a, b)
         IN  IF c # 0 THEN c ELSE ComparePartsFrom(pa, pb, k + 1)

ComparePrereleases(a, b) ==
    IF a = b THEN 0
    ELSE ComparePartsFrom(SplitDots(a, <<>>), SplitDots(b, <<>>), 1)

RECURSIVE CompareSegmentsFrom(_, _, _)
CompareSegmentsFrom(sa, sb, k) ==
    IF k > Len(sa) /\ k > Len(sb) THEN 0
    ELSE IF k > Len(sa) THEN (IF AllZero(sb, k) THEN 0 ELSE -1)
    ELSE IF k > Len(sb) THEN (IF AllZero(sa, k) THEN 0 ELSE 1)
    ELSE IF sa[k] = sb[k] THEN CompareSegmentsFrom(sa, sb, k + 1)
    ELSE IF sa[k] < sb[k] THEN -1
    ELSE 1

\* Version.Compare on two parsed versions.
VersionCompare(a, b) ==
    IF a.segs = b.segs
    THEN IF a.pre = <<>> /\ b.pre = <<>> THEN 0
         ELSE IF a.pre = <<>> THEN 1
         ELSE IF b.pre = <<>> THEN -1
         ELSE ComparePrereleases(a.pre, b.pre)
    ELSE CompareSegmentsFrom(a.segs, b.segs, 1)

-----------------------------------------------------------------------------
(* The version resolver *)

\* main.go:965  compareVersions
compareVersions(v1, v2) ==
    LET ver1 == NewVersion(v1)
        ver2 == NewVersion(v2)
    IN  IF ~ver1.ok \/ ~ver2.ok
        THEN IF BytesLess(Chars(v1), Chars(v2)) THEN -1
             ELSE IF BytesLess(Chars(v2), Chars(v1)) THEN 1
             ELSE 0
        ELSE VersionCompare(ver1, ver2)

NoResult == [err |-> TRUE, key |-> <<>>, version |-> ""]

\* A ranking by the bytes of the tokens.
MaxOfBytes(versions) ==
    CHOOSE k \in 1..Len(versions) :
        \A j \in 1..Len(versions) :
            ~BytesLess(Chars(versions[k]), Chars(versions[j]))

\* main.go:957  the less function handed to sort.Slice.
\* sort.Slice on a slice of at most 12 elements is an insertion sort: element
\* j moves down while it is less than the one before it.
RECURSIVE SinkDown(_, _)
SinkDown(data, j) ==
    IF j > 1 /\ VersionCompare(NewVersion(data[j]), NewVersion(data[j - 1])) < 0
    THEN SinkDown([data EXCEPT ![j] = data[j - 1], ![j - 1] = data[j]], j - 1)
    ELSE data

RECURSIVE InsertionSort(_, _)
InsertionSort(data, i) ==
    IF i > Len(data) THEN data ELSE InsertionSort(SinkDown(data, i), i + 1)

\* main.go:956-960  the place of the element that is last after the sort.
MaxOf(versions) ==
    CHOOSE k \in 1..Len(versions) :
        versions[k] = InsertionSort(versions, 2)[Len(versions)]

\* A ranking that gives up when one token does not parse.
findMaxVersionStrict(versionStrings) ==
    LET versions == SelectSeq(versionStrings, LAMBDA vs : NewVersion(vs).ok)
    IN  IF Len(versions) = 0 \/ Len(versions) # Len(versionStrings) THEN ""
        ELSE versions[MaxOf(versions)]

\* main.go:930  findMaxVersion: "" stands for the error result.
findMaxVersion(versionStrings) ==
    LET versions == SelectSeq(versionStrings, LAMBDA vs : NewVersion(vs).ok)
    IN  IF Len(versionStrings) = 0 \/ Len(versions) = 0 THEN ""
        ELSE versions[MaxOf(versions)]

\* main.go:899  findLatestVersion
findLatestVersion(keys, prefix, schemaFileName) ==
    LET IsCandidate(key) ==
            /\ PathBase(key) = schemaFileName
            /\ PathBase(PathDir(key)) \notin {".", "/"}
        cands == SelectSeq(keys, IsCandidate)
        versionStrings == [k \in 1..Len(cands) |-> PathBase(PathDir(cands[k]))]
        latestVersion == findMaxVersion(versionStrings)
    IN  IF Len(versionStrings) = 0 \/ latestVersion = "" THEN NoResult
        ELSE [err |-> FALSE,
              key |-> PathJoin(PathJoin(prefix, <<latestVersion>>), <<schemaFileName>>),
              version |-> latestVersion]

\* A marker placed beside the directory of the artifact instead of inside it.
buildMarkerBesideDir(schemaKey, completedFileName) ==
    PathJoin(PathDir(PathDir(schemaKey)), <<completedFileName>>)

\* main.go:1060  buildCompletionMarkerKey
buildCompletionMarkerKey(schemaKey, completedFileName) ==
    PathJoin(PathDir(schemaKey), <<completedFileName>>)

\* main.go:1198  buildExportedSchemaKey
buildExportedSchemaKey(schemaKey) ==
    PathJoin(PathDir(schemaKey), <<ExportedFile>>)

\* A latest-completed query that does not look for the marker.
findLatestUnmarked(keys, prefix, schemaFileName, completedFileName) ==
    findLatestVersion(keys, prefix, schemaFileName)

\* main.go:851  findLatestCompletedSchema, from the listing on.
findLatestCompletedSchema(keys, prefix, schemaFileName, completedFileName) ==
    LET keySet == {keys[k] : k \in 1..Len(keys)}
        IsCompleted(key) ==
            /\ PathBase(key) = schemaFileName
            /\ buildCompletionMarkerKey(key, completedFileName) \in keySet
            /\ PathBase(PathDir(key)) \notin {".", "/"}
        cands == SelectSeq(keys, IsCompleted)
        versionStrings == [k \in 1..Len(cands) |-> PathBase(PathDir(cands[k]))]
        latestVersion == findMaxVersion(versionStrings)
    IN  IF Len(versionStrings) = 0 \/ latestVersion = "" THEN NoResult
        ELSE [err |-> FALSE,
              key |-> PathJoin(PathJoin(prefix, <<latestVersion>>), <<schemaFileName>>),
              version |-> latestVersion]

-----------------------------------------------------------------------------
(* Configuration and the shape of the state *)

HookNames == {"on-s3-fetch-error", "on-before-apply", "on-apply-failed", "on-apply-succeeded"}

\* {prefix}{version}/{schemaFileName}; a prefix always ends in "/" (main.go:521).
SchemaKey(prefix, token) == PathJoin(PathJoin(prefix, <<token>>), <<SchemaFile>>)

\* The bucket at the start, and the keys an operator may upload later.
InitialKeys == {SchemaKey(<<"schemas">>, "v9"), SchemaKey(<<"schemas">>, "latest")}
Publishable == {SchemaKey(<<"schemas">>, "v10"), SchemaKey(<<"other">>, "v9")}

\* Every key the bucket can come to hold.
AllKeys ==
    UNION {{k, buildCompletionMarkerKey(k, CompletedFile), buildExportedSchemaKey(k)} :
           k \in InitialKeys \cup Publishable}

\* Bucket contents for the resolver: parseable and unparseable version
\* directories, some with a marker, a schema file two directories below the
\* prefix, and schema files with no directory or the root as directory.
ResolveKeys ==
    {SchemaKey(<<"schemas">>, t) : t \in {"v9", "v10", "1.0.9", "1.0.10", "latest"}}
    \cup {buildCompletionMarkerKey(SchemaKey(<<"schemas">>, t), CompletedFile) :
              t \in {"v9", "v10", "latest"}}
    \cup {<<"schemas", "deep", "v11", SchemaFile>>, <<"schemas", "deep", "v11", CompletedFile>>,
          <<SchemaFile>>, <<"", SchemaFile>>}

\* The command lines the processes are started with.
ProcessConfigs ==
    {[prefix |-> <<"schemas">>, skipLock |-> FALSE, exportAfterApply |-> TRUE,
      completedFile |-> CompletedFile, hooks |-> HookNames],
     [prefix |-> <<"other">>, skipLock |-> FALSE, exportAfterApply |-> FALSE,
      completedFile |-> CompletedFile, hooks |-> {"on-s3-fetch-error", "on-apply-failed"}]}

\* *ApplyResult (main.go:1001): not yet assigned, nil, or the captured output.
ApplyResult(is, stdout, stderr) == [is |-> is, Stdout |-> stdout, Stderr |-> stderr]

\* runSync's locals before the cycle has set them.
NoLocals ==
    [latestSchemaKey |-> <<>>, latestVersion |-> "", marker |-> "unchecked",
     dryRunOutput |-> "", applyResult |-> ApplyResult("unset", "", ""), applied |-> FALSE,
     ret |-> "running"]

NoCycle == [trace |-> <<>>, hooks |-> <<>>, puts |-> {}]

\* metrics.go:12-36  the five counters, by what one cycle adds to them.
NoMetrics == [s3Fetch |-> 0, s3FetchError |-> 0, apply |-> 0, applySuccess |-> 0,
              applyError |-> 0]

\* metrics.go:99-126  what each record function adds.
recordS3FetchAttempt(m) == [m EXCEPT !.s3Fetch = @ + 1]
recordS3FetchError(m) == [m EXCEPT !.s3FetchError = @ + 1]
recordApplyAttempt(m) == [m EXCEPT !.apply = @ + 1]
recordApplySuccess(m) == [m EXCEPT !.applySuccess = @ + 1]

\* An apply error that no counter records.
recordNoApplyError(m) == m

recordApplyError(m) == [m EXCEPT !.applyError = @ + 1]

\* No function is called on its own while the engine runs.
NoCall == [fn |-> "", args |-> <<>>, result |-> <<>>]

\* A hook context that never holds the version.
HookEnvNoVersion(name, i, version, error, stdout, stderr, dryRun) ==
    [name |-> name, ran |-> name \in cfg[i].hooks, PathPrefix |-> cfg[i].prefix,
     Version |-> "", Error |-> error, Stdout |-> stdout, Stderr |-> stderr,
     DryRun |-> dryRun, exit |-> IF name \in cfg[i].hooks THEN "ok" ELSE "none"]

\* A hook context that is the base context itself, not a copy of it: a field
\* the new hook does not set keeps what an earlier hook of the cycle put there.
HookEnvShared(name, i, version, error, stdout, stderr, dryRun) ==
    LET Kept(new, field) ==
            IF new # "" \/ cyc[i].hooks = <<>> THEN new
            ELSE cyc[i].hooks[Len(cyc[i].hooks)][field]
    IN  [name |-> name, ran |-> name \in cfg[i].hooks, PathPrefix |-> cfg[i].prefix,
         Version |-> Kept(version, "Version"), Error |-> Kept(error, "Error"),
         Stdout |-> Kept(stdout, "Stdout"), Stderr |-> Kept(stderr, "Stderr"),
         DryRun |-> Kept(dryRun, "DryRun"),
         exit |-> IF name \in cfg[i].hooks THEN "ok" ELSE "none"]

\* HookEnv (main.go:1124); the base fields (main.go:666) come from cfg.
HookEnv(name, i, version, error, stdout, stderr, dryRun) ==
    [name |-> name, ran |-> name \in cfg[i].hooks, PathPrefix |-> cfg[i].prefix,
     Version |-> version, Error |-> error, Stdout |-> stdout, Stderr |-> stderr,
     DryRun |-> dryRun, exit |-> IF name \in cfg[i].hooks THEN "ok" ELSE "none"]

Start ==
    /\ s3 = InitialKeys
    /\ pgLocks = {}
    /\ cfg \in [Instances -> ProcessConfigs]
    /\ pc = [i \in Instances |-> "idle"]
    /\ lastAppliedVersion = [i \in Instances |-> ""]
    /\ consecutiveFailureCount = [i \in Instances |-> 0]
    /\ loc = [i \in Instances |-> NoLocals]
    /\ locker = [i \in Instances |-> "none"]
    /\ cyc = [i \in Instances |-> NoCycle]
    /\ hist = [applies |-> {}, reclaimed |-> {}, streak |-> [i \in Instances |-> 0],
               listFails |-> [i \in Instances |-> 0],
               fetchFails |-> [i \in Instances |-> 0],
               failedApply |-> [i \in Instances |-> <<>>],
               metrics |-> [i \in Instances |-> NoMetrics]]
    /\ call = NoCall

Init == Start /\ budget = MaxFaults

-----------------------------------------------------------------------------
(* The collaborators: object store, database sessions, faults *)

\* The characters of a key: its segments joined by "/".
RECURSIVE KeyChars(_)
KeyChars(key) ==
    IF key = <<>> THEN <<>>
    ELSE IF Len(key) = 1 THEN Chars(key[1])
    ELSE Chars(key[1]) \o <<"/">> \o KeyChars(Tail(key))

RECURSIVE SortKeys(_)
SortKeys(keys) ==
    IF keys = {} THEN <<>>
    ELSE LET first == CHOOSE k \in keys :
                        \A j \in keys \ {k} : BytesLess(KeyChars(k), KeyChars(j))
         IN  <<first>> \o SortKeys(keys \ {first})

\* The store lists keys in byte order.
\* ListObjectsV2 with a Prefix: the matching keys present, in the store's order.
S3Order == SortKeys(AllKeys \cup ResolveKeys)

ListObjectsV2(prefix) == SelectSeq(S3Order, LAMBDA k : k \in s3 /\ HasPrefix(k, prefix))

\* What a call to a collaborator can do: succeed, or fail while faults remain.
Outcomes == IF budget > 0 THEN {"ok", "err"} ELSE {"ok"}

Cost(o) == IF o \in {"ok", "none"} THEN 0 ELSE 1

Spend(o) == budget' = budget - Cost(o)

\* runHook (main.go:821): a configured command exits zero or, while faults
\* remain after the outcome o of the step before it, non-zero; an empty
\* command is not run.
HookExits(name, i, o) ==
    IF name \notin cfg[i].hooks THEN {"none"}
    ELSE IF budget - Cost(o) > 0 THEN {"ok", "fail"} ELSE {"ok"}

SpendBoth(o, h) == budget' = budget - Cost(o) - Cost(h)

\* A lock id derived from the path prefix instead of the one constant.
LockIdPerPrefix(i) == cfg[i].prefix[1]

\* lock.go:42, 53  the lock id the session asks for.
LockIdOf(i) == AdvisoryLockID

Holds(i) == <<LockIdOf(i), i>> \in pgLocks

\* pg_try_advisory_lock: granted unless another session holds the id.
Grantable(i) == \A h \in pgLocks : h[1] = LockIdOf(i) => h[2] = i

\* A lock that outlives the session that took it.
KeepSession(i) == pgLocks

\* Closing a session drops every lock it holds.
DropSession(i) == {h \in pgLocks : h[2] # i}

-----------------------------------------------------------------------------
(* runSync (main.go:662), one action per call to a collaborator *)

Traced(i, step) == [cyc[i] EXCEPT !.trace = Append(@, step)]

\* runHook (main.go:821) appended to a cycle record.
WithHook(c, env) == [c EXCEPT !.hooks = Append(@, env),
                              !.trace = Append(@, env.name)]

\* runCommandWithEnv (main.go:1177) returned h for the hook with context env.
Exited(env, h) == [env EXCEPT !.exit = h]

\* A hook that fires once, when the threshold is reached.
EscalateOnce(count) == count = maxConsecutiveFailures

\* main.go:685, 720  the fetch-error hook fires at or above the threshold.
ShouldEscalate(count) == count >= maxConsecutiveFailures

\* Observation: hist.streak counts the cycles of process i that failed at the
\* listing or at the download since its last successful listing;
\* hist.listFails counts its consecutive cycles that failed at the listing;
\* hist.fetchFails counts its consecutive cycles that ended in a failed fetch,
\* at the listing or at the download; hist.failedApply is the key of the
\* version whose apply by process i failed last, until an apply of i succeeds;
\* hist.metrics is what the current (or last) cycle of process i has added to
\* the counters of metrics.go.
Streak(i, n) == [hist EXCEPT !.streak[i] = n]

\* A cache that is never written.
Forget(i) == lastAppliedVersion

\* main.go:709, 788  lastAppliedVersion = latestVersion.
Remember(i) == [lastAppliedVersion EXCEPT ![i] = loc[i].latestVersion]

\* A comparison that skips only a version older than the cached one.
NotNewerStrictly(i, latestVersion) ==
    /\ lastAppliedVersion[i] # ""
    /\ compareVersions(latestVersion, lastAppliedVersion[i]) < 0

\* A process that never skips on its cache.
NeverSkips(i, latestVersion) == FALSE

\* main.go:697  the resolved version is not newer than the last applied one.
NotNewer(i, latestVersion) ==
    /\ lastAppliedVersion[i] # ""
    /\ compareVersions(latestVersion, lastAppliedVersion[i]) <= 0

\* findLatestSchema (main.go:831): the listing fails, or its keys are resolved.
findLatestSchema(i, o) ==
    IF o = "err" THEN NoResult
    ELSE findLatestVersion(ListObjectsV2(cfg[i].prefix), cfg[i].prefix, SchemaFile)

\* main.go:678-712  list, resolve, compare with the last applied version.
FindLatestSchema(i) ==
    /\ pc[i] = "idle"
    /\ \E o \in Outcomes :
        LET r == findLatestSchema(i, o)
            text == IF o = "err" THEN "list failed" ELSE "no schema files found"
            count == consecutiveFailureCount[i] + 1
            started == Traced(i, "list")
        IN  /\ IF r.err
               THEN /\ count <= MaxFailureCount
                    /\ consecutiveFailureCount' = [consecutiveFailureCount EXCEPT ![i] = count]
                    /\ IF ShouldEscalate(count)
                       THEN \E h \in HookExits("on-s3-fetch-error", i, o) :
                              /\ SpendBoth(o, h)
                              /\ cyc' = [cyc EXCEPT ![i] =
                                           WithHook(started,
                                                    Exited(HookEnv("on-s3-fetch-error", i, "",
                                                                   text, "", "", ""), h))]
                       ELSE /\ Spend(o)
                            /\ cyc' = [cyc EXCEPT ![i] = started]
                    /\ loc' = [loc EXCEPT ![i].ret = "error"]
                    /\ pc' = [pc EXCEPT ![i] = "returned"]
                    /\ hist' = [Streak(i, hist.streak[i] + 1) EXCEPT
                                  !.listFails[i] = @ + 1,
                                  !.fetchFails[i] = @ + 1,
                                  !.metrics[i] =
                                      recordS3FetchError(recordS3FetchAttempt(NoMetrics))]
               ELSE /\ Spend(o)
                    /\ consecutiveFailureCount' = [consecutiveFailureCount EXCEPT ![i] = 0]
                    /\ hist' = [Streak(i, 0) EXCEPT
                                  !.listFails[i] = 0,
                                  !.fetchFails[i] =
                                      IF NotNewer(i, r.version) THEN 0 ELSE @,
                                  !.metrics[i] = recordS3FetchAttempt(NoMetrics)]
                    /\ cyc' = [cyc EXCEPT ![i] = started]
                    /\ IF NotNewer(i, r.version)
                       THEN /\ loc' = [loc EXCEPT ![i].latestSchemaKey = r.key,
                                                  ![i].latestVersion = r.version,
                                                  ![i].ret = "noop"]
                            /\ pc' = [pc EXCEPT ![i] = "returned"]
                       ELSE /\ loc' = [loc EXCEPT ![i].latestSchemaKey = r.key,
                                                  ![i].latestVersion = r.version]
                            /\ pc' = [pc EXCEPT ![i] =
                                        IF cfg[i].completedFile # "" THEN "head" ELSE "get"]
    /\ UNCHANGED <<s3, pgLocks, cfg, call, lastAppliedVersion, locker>>

\* A probe that never finds a marker.
MarkerNeverFound(markerKey, o) == FALSE

\* checkCompletionMarker (main.go:1065): HeadObject found the marker.
MarkerExists(markerKey, o) == o = "ok" /\ markerKey \in s3

\* A cycle that ends with an error when the probe of the marker fails.
CheckMarkerOrAbort(i) ==
    /\ pc[i] = "head"
    /\ \E o \in Outcomes :
        LET markerKey == buildCompletionMarkerKey(loc[i].latestSchemaKey, cfg[i].completedFile)
            exists == MarkerExists(markerKey, o)
        IN  /\ Spend(o)
            /\ cyc' = [cyc EXCEPT ![i] = Traced(i, "head")]
            /\ IF exists
               THEN /\ lastAppliedVersion' = Remember(i)
                    /\ loc' = [loc EXCEPT ![i].marker = "exists", ![i].ret = "noop"]
                    /\ pc' = [pc EXCEPT ![i] = "returned"]
                    /\ hist' = [hist EXCEPT !.fetchFails[i] = 0]
               ELSE /\ loc' = [loc EXCEPT ![i].marker = IF o = "ok" THEN "absent" ELSE "error",
                                          ![i].ret = IF o = "ok" THEN @ ELSE "error"]
                    /\ pc' = [pc EXCEPT ![i] = IF o = "ok" THEN "get" ELSE "returned"]
                    /\ UNCHANGED <<lastAppliedVersion, hist>>
    /\ UNCHANGED <<s3, pgLocks, cfg, call, consecutiveFailureCount, locker>>

\* main.go:703-712
CheckCompletionMarker(i) ==
    /\ pc[i] = "head"
    /\ \E o \in Outcomes :
        LET markerKey == buildCompletionMarkerKey(loc[i].latestSchemaKey, cfg[i].completedFile)
            exists == MarkerExists(markerKey, o)
        IN  /\ Spend(o)
            /\ cyc' = [cyc EXCEPT ![i] = Traced(i, "head")]
            /\ IF exists
               THEN /\ lastAppliedVersion' = Remember(i)
                    /\ loc' = [loc EXCEPT ![i].marker = "exists", ![i].ret = "noop"]
                    /\ pc' = [pc EXCEPT ![i] = "returned"]
                    /\ hist' = [hist EXCEPT !.fetchFails[i] = 0]
               ELSE /\ loc' = [loc EXCEPT ![i].marker = IF o = "ok" THEN "absent" ELSE "error"]
                    /\ pc' = [pc EXCEPT ![i] = "get"]
                    /\ UNCHANGED <<lastAppliedVersion, hist>>
    /\ UNCHANGED <<s3, pgLocks, cfg, call, consecutiveFailureCount, locker>>

\* A cycle that takes the lock whatever the options say.
AlwaysLock(i) == "connect"

\* main.go:731  the locker is created unless --skip-lock is set.
AfterDownload(i) == IF cfg[i].skipLock THEN "plan" ELSE "connect"

\* main.go:715-727 and downloadSchemaFromS3 (main.go:987).
DownloadSchema(i) ==
    /\ pc[i] = "get"
    /\ \E o \in Outcomes :
        LET got == o = "ok" /\ loc[i].latestSchemaKey \in s3
            count == consecutiveFailureCount[i] + 1
            step == Traced(i, "get")
        IN  /\ IF got
               THEN /\ Spend(o)
                    /\ cyc' = [cyc EXCEPT ![i] = step]
                    /\ pc' = [pc EXCEPT ![i] = AfterDownload(i)]
                    /\ hist' = [hist EXCEPT !.fetchFails[i] = 0]
                    /\ UNCHANGED <<consecutiveFailureCount, loc>>
               ELSE /\ count <= MaxFailureCount
                    /\ consecutiveFailureCount' = [consecutiveFailureCount EXCEPT ![i] = count]
                    /\ hist' = [Streak(i, hist.streak[i] + 1) EXCEPT
                                  !.fetchFails[i] = @ + 1,
                                  !.metrics[i] = recordS3FetchError(@)]
                    /\ IF ShouldEscalate(count)
                       THEN \E h \in HookExits("on-s3-fetch-error", i, o) :
                              /\ SpendBoth(o, h)
                              /\ cyc' = [cyc EXCEPT ![i] =
                                           WithHook(step,
                                                    Exited(HookEnv("on-s3-fetch-error", i,
                                                                   loc[i].latestVersion,
                                                                   "get failed", "", "", ""), h))]
                       ELSE /\ Spend(o)
                            /\ cyc' = [cyc EXCEPT ![i] = step]
                    /\ loc' = [loc EXCEPT ![i].ret = "error"]
                    /\ pc' = [pc EXCEPT ![i] = "returned"]
    /\ UNCHANGED <<s3, pgLocks, cfg, call, lastAppliedVersion, locker>>

\* main.go:732-736 and NewAdvisoryLocker (lock.go:21).
NewAdvisoryLocker(i) ==
    /\ pc[i] = "connect"
    /\ \E o \in Outcomes :
        /\ Spend(o)
        /\ cyc' = [cyc EXCEPT ![i] = Traced(i, "connect")]
        /\ IF o = "ok"
           THEN /\ locker' = [locker EXCEPT ![i] = "open"]
                /\ pc' = [pc EXCEPT ![i] = "trylock"]
                /\ UNCHANGED loc
           ELSE /\ loc' = [loc EXCEPT ![i].ret = "error"]
                /\ pc' = [pc EXCEPT ![i] = "returned"]
                /\ UNCHANGED locker
    /\ UNCHANGED <<s3, pgLocks, cfg, call, lastAppliedVersion, consecutiveFailureCount, hist>>

\* A lock request that waits for the holder (pg_advisory_lock) instead of
\* answering at once.
TryLockWait(i) ==
    /\ pc[i] = "trylock"
    /\ Grantable(i)
    /\ pgLocks' = pgLocks \cup {<<LockIdOf(i), i>>}
    /\ cyc' = [cyc EXCEPT ![i] = Traced(i, "trylock")]
    /\ pc' = [pc EXCEPT ![i] = "plan"]
    /\ UNCHANGED <<s3, budget, cfg, call, lastAppliedVersion, consecutiveFailureCount, loc,
                   locker, hist>>

\* A lock request whose query error is taken for a refusal.
TryLockErrIsSkip(i) ==
    /\ pc[i] = "trylock"
    /\ \E o \in Outcomes :
        /\ Spend(o)
        /\ cyc' = [cyc EXCEPT ![i] = Traced(i, "trylock")]
        /\ IF o = "ok" /\ Grantable(i)
           THEN /\ pgLocks' = pgLocks \cup {<<LockIdOf(i), i>>}
                /\ pc' = [pc EXCEPT ![i] = "plan"]
                /\ UNCHANGED loc
           ELSE /\ loc' = [loc EXCEPT ![i].ret = "noop"]
                /\ pc' = [pc EXCEPT ![i] = "close"]
                /\ UNCHANGED pgLocks
    /\ UNCHANGED <<s3, cfg, call, lastAppliedVersion, consecutiveFailureCount, locker, hist>>

\* main.go:738-750 and AdvisoryLocker.TryLock (lock.go:41).
TryLock(i) ==
    /\ pc[i] = "trylock"
    /\ \E o \in Outcomes :
        /\ Spend(o)
        /\ cyc' = [cyc EXCEPT ![i] = Traced(i, "trylock")]
        /\ IF o = "ok" /\ Grantable(i)
           THEN /\ pgLocks' = pgLocks \cup {<<LockIdOf(i), i>>}
                /\ pc' = [pc EXCEPT ![i] = "plan"]
                /\ UNCHANGED loc
           ELSE /\ loc' = [loc EXCEPT ![i].ret = IF o = "ok" THEN "noop" ELSE "error"]
                /\ pc' = [pc EXCEPT ![i] = "close"]
                /\ UNCHANGED pgLocks
    /\ UNCHANGED <<s3, cfg, call, lastAppliedVersion, consecutiveFailureCount, locker, hist>>

\* A return that runs no deferred call.
LeaveNoDefer(i) == "returned"

\* Where a return goes once the deferred Unlock is registered (main.go:746).
Leave(i) == IF cfg[i].skipLock THEN "returned" ELSE "unlock"

\* dryRunSchema (main.go:1007): the DDL psqldef prints; when it fails, what
\* psqldef printed, or nothing when the temporary file could not be written.
DryRunOutputs(o) == IF o = "ok" THEN {"ALTER TABLE"} ELSE {"", "plan failed"}

\* main.go:754-764 and dryRunSchema (main.go:1007), then the before-apply hook.
DryRunSchema(i) ==
    /\ pc[i] = "plan"
    /\ \E o \in Outcomes : \E out \in DryRunOutputs(o) :
        \E h \in HookExits("on-before-apply", i, o) :
            /\ SpendBoth(o, h)
            /\ loc' = [loc EXCEPT ![i].dryRunOutput = out]
            /\ cyc' = [cyc EXCEPT ![i] =
                         WithHook(Traced(i, "plan"),
                                  Exited(HookEnv("on-before-apply", i, loc[i].latestVersion,
                                                 "", "", "", out), h))]
    /\ pc' = [pc EXCEPT ![i] = "apply"]
    /\ UNCHANGED <<s3, pgLocks, cfg, call, lastAppliedVersion, consecutiveFailureCount, locker, hist>>

\* What the differ leaves in ApplyResult when it exits non-zero.
FailedApply == ApplyResult("set", "-- Apply --", "syntax error")

ApplyOutcomes == IF budget > 0 THEN {"ok", "exit", "notrun"} ELSE {"ok"}

\* A cycle that carries on after a failed apply.
AfterApplyAlways(i, o) == IF cfg[i].exportAfterApply THEN "export" ELSE "mark"

\* A cycle that exports after every successful apply, enabled or not.
AfterApplyExports(i, o) == IF o # "ok" THEN Leave(i) ELSE "export"

\* main.go:771-782, 791  where runSync goes after applySchema returned.
AfterApply(i, o) ==
    IF o # "ok" THEN Leave(i)
    ELSE IF cfg[i].exportAfterApply THEN "export" ELSE "mark"

\* An apply-failed context without the captured output.
ApplyFailedEnvBare(i, res) ==
    HookEnv("on-apply-failed", i, loc[i].latestVersion, "apply failed", "", "", "")

\* main.go:773-779  the context of the apply-failed hook.
ApplyFailedEnv(i, res) ==
    HookEnv("on-apply-failed", i, loc[i].latestVersion, "apply failed",
            IF res.is # "nil" THEN res.Stdout ELSE "",
            IF res.is # "nil" THEN res.Stderr ELSE "", "")

\* An apply whose failure is remembered like a success.
ApplyAndRemember(i) ==
    /\ pc[i] = "apply"
    /\ \E o \in ApplyOutcomes :
        /\ lastAppliedVersion' = Remember(i)
        /\ IF o = "ok"
           THEN /\ Spend(o)
                /\ loc' = [loc EXCEPT ![i].applied = TRUE,
                                      ![i].applyResult = ApplyResult("set", "-- Apply --", "")]
                /\ cyc' = [cyc EXCEPT ![i] = Traced(i, "apply")]
                /\ hist' = [hist EXCEPT !.applies = @ \cup {<<i, loc[i].latestSchemaKey>>},
                                        !.failedApply[i] = <<>>,
                                        !.metrics[i] =
                                            recordApplySuccess(recordApplyAttempt(@))]
                /\ pc' = [pc EXCEPT ![i] = AfterApply(i, o)]
           ELSE LET res == IF o = "exit" THEN FailedApply ELSE ApplyResult("nil", "", "")
                IN  /\ loc' = [loc EXCEPT ![i].applyResult = res, ![i].ret = "error"]
                    /\ \E h \in HookExits("on-apply-failed", i, o) :
                          /\ SpendBoth(o, h)
                          /\ cyc' = [cyc EXCEPT ![i] =
                                       WithHook(Traced(i, "apply"),
                                                Exited(ApplyFailedEnv(i, res), h))]
                    /\ hist' = [hist EXCEPT !.failedApply[i] = loc[i].latestSchemaKey,
                                            !.metrics[i] =
                                                recordApplyError(recordApplyAttempt(@))]
                    /\ pc' = [pc EXCEPT ![i] = AfterApply(i, o)]
    /\ UNCHANGED <<s3, pgLocks, cfg, call, consecutiveFailureCount, locker>>

\* main.go:767-788 and applySchema (main.go:1030): "exit" is the differ's
\* non-zero exit, "notrun" a failure before it starts (applyResult is nil).
ApplySchema(i) ==
    /\ pc[i] = "apply"
    /\ \E o \in ApplyOutcomes :
        /\ IF o = "ok"
           THEN /\ Spend(o)
                /\ lastAppliedVersion' = Remember(i)
                /\ loc' = [loc EXCEPT ![i].applied = TRUE,
                                      ![i].applyResult = ApplyResult("set", "-- Apply --", "")]
                /\ cyc' = [cyc EXCEPT ![i] = Traced(i, "apply")]
                /\ hist' = [hist EXCEPT !.applies = @ \cup {<<i, loc[i].latestSchemaKey>>},
                                        !.failedApply[i] = <<>>,
                                        !.metrics[i] =
                                            recordApplySuccess(recordApplyAttempt(@))]
                /\ pc' = [pc EXCEPT ![i] = AfterApply(i, o)]
           ELSE LET res == IF o = "exit" THEN FailedApply ELSE ApplyResult("nil", "", "")
                IN  /\ loc' = [loc EXCEPT ![i].applyResult = res, ![i].ret = "error"]
                    /\ \E h \in HookExits("on-apply-failed", i, o) :
                          /\ SpendBoth(o, h)
                          /\ cyc' = [cyc EXCEPT ![i] =
                                       WithHook(Traced(i, "apply"),
                                                Exited(ApplyFailedEnv(i, res), h))]
                    /\ hist' = [hist EXCEPT !.failedApply[i] = loc[i].latestSchemaKey,
                                            !.metrics[i] =
                                                recordApplyError(recordApplyAttempt(@))]
                    /\ pc' = [pc EXCEPT ![i] = AfterApply(i, o)]
                    /\ UNCHANGED lastAppliedVersion
    /\ UNCHANGED <<s3, pgLocks, cfg, call, consecutiveFailureCount, locker>>

\* An export whose failure ends the cycle with an error.
ExportOrAbort(i) ==
    /\ pc[i] = "export"
    /\ \E o \in Outcomes :
        /\ Spend(o)
        /\ s3' = IF o = "ok" THEN s3 \cup {buildExportedSchemaKey(loc[i].latestSchemaKey)} ELSE s3
        /\ cyc' = [cyc EXCEPT ![i] =
                     [Traced(i, "export") EXCEPT !.puts =
                        IF o = "ok" THEN @ \cup {buildExportedSchemaKey(loc[i].latestSchemaKey)}
                        ELSE @]]
        /\ loc' = [loc EXCEPT ![i].ret = IF o = "ok" THEN @ ELSE "error"]
        /\ pc' = [pc EXCEPT ![i] = IF o = "ok" THEN "mark" ELSE Leave(i)]
    /\ UNCHANGED <<pgLocks, cfg, call, lastAppliedVersion, consecutiveFailureCount, locker, hist>>

\* main.go:791-803, exportSchemaFromDB (main.go:1188), uploadSchemaToS3 (main.go:1204).
ExportSchema(i) ==
    /\ pc[i] = "export"
    /\ \E o \in Outcomes :
        /\ Spend(o)
        /\ s3' = IF o = "ok" THEN s3 \cup {buildExportedSchemaKey(loc[i].latestSchemaKey)} ELSE s3
        /\ cyc' = [cyc EXCEPT ![i] =
                     [Traced(i, "export") EXCEPT !.puts =
                        IF o = "ok" THEN @ \cup {buildExportedSchemaKey(loc[i].latestSchemaKey)}
                        ELSE @]]
    /\ pc' = [pc EXCEPT ![i] = "mark"]
    /\ UNCHANGED <<pgLocks, cfg, call, lastAppliedVersion, consecutiveFailureCount, loc, locker, hist>>

\* A cycle that fires the apply-succeeded hook before it writes the marker.
MarkAfterHook(i) ==
    /\ pc[i] = "mark"
    /\ \E o \in Outcomes : \E h \in HookExits("on-apply-succeeded", i, o) :
        LET markerKey == buildCompletionMarkerKey(loc[i].latestSchemaKey, cfg[i].completedFile)
            put == cfg[i].completedFile # "" /\ o = "ok"
            hooked == WithHook(cyc[i], Exited(HookEnv("on-apply-succeeded", i,
                                                      loc[i].latestVersion, "", "", "", ""), h))
        IN  /\ SpendBoth(o, h)
            /\ s3' = IF put THEN s3 \cup {markerKey} ELSE s3
            /\ cyc' = [cyc EXCEPT ![i] =
                         [hooked EXCEPT !.trace = Append(@, "mark"),
                                        !.puts = IF put THEN @ \cup {markerKey} ELSE @]]
    /\ loc' = [loc EXCEPT ![i].ret = "success"]
    /\ pc' = [pc EXCEPT ![i] = Leave(i)]
    /\ UNCHANGED <<pgLocks, cfg, call, lastAppliedVersion, consecutiveFailureCount, locker, hist>>

\* main.go:806-818 and createCompletionMarker (main.go:1085), then the
\* apply-succeeded hook and the return.
CreateCompletionMarker(i) ==
    /\ pc[i] = "mark"
    /\ \E o \in Outcomes : \E h \in HookExits("on-apply-succeeded", i, o) :
        LET markerKey == buildCompletionMarkerKey(loc[i].latestSchemaKey, cfg[i].completedFile)
            put == cfg[i].completedFile # "" /\ o = "ok"
            step == IF cfg[i].completedFile # ""
                    THEN [Traced(i, "mark") EXCEPT !.puts = IF put THEN @ \cup {markerKey} ELSE @]
                    ELSE cyc[i]
        IN  /\ SpendBoth(o, h)
            /\ s3' = IF put THEN s3 \cup {markerKey} ELSE s3
            /\ cyc' = [cyc EXCEPT ![i] =
                         WithHook(step, Exited(HookEnv("on-apply-succeeded", i,
                                                       loc[i].latestVersion, "", "", "", ""), h))]
    /\ loc' = [loc EXCEPT ![i].ret = "success"]
    /\ pc' = [pc EXCEPT ![i] = Leave(i)]
    /\ UNCHANGED <<pgLocks, cfg, call, lastAppliedVersion, consecutiveFailureCount, locker, hist>>

\* The deferred Unlock (main.go:746) and AdvisoryLocker.Unlock (lock.go:51).
Unlock(i) ==
    /\ pc[i] = "unlock"
    /\ \E o \in Outcomes :
        /\ Spend(o)
        /\ pgLocks' = IF o = "ok" THEN pgLocks \ {<<LockIdOf(i), i>>} ELSE pgLocks
    /\ cyc' = [cyc EXCEPT ![i] = Traced(i, "unlock")]
    /\ pc' = [pc EXCEPT ![i] = "close"]
    /\ UNCHANGED <<s3, cfg, call, lastAppliedVersion, consecutiveFailureCount, loc, locker, hist>>

\* The deferred Close (main.go:736) and AdvisoryLocker.Close (lock.go:64).
Close(i) ==
    /\ pc[i] = "close"
    /\ pgLocks' = DropSession(i)
    /\ locker' = [locker EXCEPT ![i] = "none"]
    /\ cyc' = [cyc EXCEPT ![i] = Traced(i, "close")]
    /\ pc' = [pc EXCEPT ![i] = "returned"]
    /\ UNCHANGED <<s3, budget, cfg, call, lastAppliedVersion, consecutiveFailureCount, loc, hist>>

\* A loop that ends when a cycle returns an error.
SleepUnlessError(i) ==
    /\ pc[i] = "returned"
    /\ loc[i].ret # "error"
    /\ pc' = [pc EXCEPT ![i] = "idle"]
    /\ loc' = [loc EXCEPT ![i] = NoLocals]
    /\ cyc' = [cyc EXCEPT ![i] = NoCycle]
    /\ UNCHANGED <<s3, pgLocks, budget, cfg, call, lastAppliedVersion, consecutiveFailureCount,
                   locker, hist>>

\* A loop that ends once a cycle found nothing to apply.
SleepUnlessSkipped(i) ==
    /\ pc[i] = "returned"
    /\ loc[i].ret # "noop"
    /\ pc' = [pc EXCEPT ![i] = "idle"]
    /\ loc' = [loc EXCEPT ![i] = NoLocals]
    /\ cyc' = [cyc EXCEPT ![i] = NoCycle]
    /\ UNCHANGED <<s3, pgLocks, budget, cfg, call, lastAppliedVersion, consecutiveFailureCount,
                   locker, hist>>

\* WatchCmd.Run (main.go:550-557): runSync has returned; log, sleep, poll again.
Sleep(i) ==
    /\ pc[i] = "returned"
    /\ pc' = [pc EXCEPT ![i] = "idle"]
    /\ loc' = [loc EXCEPT ![i] = NoLocals]
    /\ cyc' = [cyc EXCEPT ![i] = NoCycle]
    /\ UNCHANGED <<s3, pgLocks, budget, cfg, call, lastAppliedVersion, consecutiveFailureCount,
                   locker, hist>>

\* The process terminates at any point and is started again: the in-memory
\* state (main.go:498-501) is lost, the database ends its session.
Crash(i) ==
    /\ budget > 0
    /\ budget' = budget - 1
    /\ pgLocks' = DropSession(i)
    /\ hist' = [hist EXCEPT !.reclaimed = IF Holds(i) THEN @ \cup {i} ELSE @,
                            !.streak[i] = 0,
                            !.listFails[i] = 0,
                            !.fetchFails[i] = 0,
                            !.failedApply[i] = <<>>,
                            !.metrics[i] = NoMetrics]
    /\ pc' = [pc EXCEPT ![i] = "idle"]
    /\ lastAppliedVersion' = [lastAppliedVersion EXCEPT ![i] = ""]
    /\ consecutiveFailureCount' = [consecutiveFailureCount EXCEPT ![i] = 0]
    /\ loc' = [loc EXCEPT ![i] = NoLocals]
    /\ locker' = [locker EXCEPT ![i] = "none"]
    /\ cyc' = [cyc EXCEPT ![i] = NoCycle]
    /\ UNCHANGED <<s3, cfg, call>>

\* An operator uploads a schema file for a version.
Publish(key) ==
    /\ key \notin s3
    /\ s3' = s3 \cup {key}
    /\ UNCHANGED <<pgLocks, budget, cfg, call, pc, lastAppliedVersion, consecutiveFailureCount,
                   loc, locker, cyc, hist>>

\* One step of the watch loop of process i.
Run(i) ==
    \/ FindLatestSchema(i)
    \/ CheckCompletionMarker(i)
    \/ DownloadSchema(i)
    \/ NewAdvisoryLocker(i)
    \/ TryLock(i)
    \/ DryRunSchema(i)
    \/ ApplySchema(i)
    \/ ExportSchema(i)
    \/ CreateCompletionMarker(i)
    \/ Unlock(i)
    \/ Close(i)
    \/ Sleep(i)

\* One step of process i.
Proc(i) ==
    \/ Run(i)
    \/ Crash(i)

Next ==
    \/ \E i \in Instances : Proc(i)
    \/ \E key \in Publishable : Publish(key)

Spec == Init /\ [][Next]_vars

-----------------------------------------------------------------------------
(* A single process (instance 1) polling alone, with restarts *)

InitSolo ==
    /\ Start
    /\ budget = SoloFaults
    /\ \A i \in Instances \ {1} : cfg[i] = cfg[1]

NextSolo ==
    \/ Proc(1)
    \/ \E key \in Publishable : Publish(key)

SpecSolo == InitSolo /\ [][NextSolo]_vars

\* A cycle that has started runs to its return, and the loop then sleeps and
\* polls again (main.go:549-557).
Finish(i) == pc[i] # "idle" /\ Run(i)

SpecLive == InitSolo /\ [][NextSolo]_vars /\ WF_vars(Finish(1))

-----------------------------------------------------------------------------
(* Two processes on the same prefix, each started with or without          *)
(* --skip-lock                                                             *)

\* main.go:454  --skip-lock, on the command line that has every hook.
SkipLockConfigs ==
    {[prefix |-> <<"schemas">>, skipLock |-> b, exportAfterApply |-> TRUE,
      completedFile |-> CompletedFile, hooks |-> HookNames] : b \in BOOLEAN}

InitSkipLock ==
    /\ s3 = InitialKeys
    /\ pgLocks = {}
    /\ budget = MaxFaults
    /\ cfg \in [Instances -> SkipLockConfigs]
    /\ pc = [i \in Instances |-> "idle"]
    /\ lastAppliedVersion = [i \in Instances |-> ""]
    /\ consecutiveFailureCount = [i \in Instances |-> 0]
    /\ loc = [i \in Instances |-> NoLocals]
    /\ locker = [i \in Instances |-> "none"]
    /\ cyc = [i \in Instances |-> NoCycle]
    /\ hist = [applies |-> {}, reclaimed |-> {}, streak |-> [i \in Instances |-> 0],
               listFails |-> [i \in Instances |-> 0],
               fetchFails |-> [i \in Instances |-> 0],
               failedApply |-> [i \in Instances |-> <<>>],
               metrics |-> [i \in Instances |-> NoMetrics]]
    /\ call = NoCall

SpecSkipLock == InitSkipLock /\ [][Next]_vars

-----------------------------------------------------------------------------
(* A single process polling a bucket from which versions are also withdrawn *)

\* An operator deletes the schema file of a version it had uploaded (while
\* the count of failed fetches is below its cap).
Remove(key) ==
    /\ key \in s3
    /\ \A i \in Instances : hist.fetchFails[i] < MaxFailureCount
    /\ s3' = s3 \ {key}
    /\ UNCHANGED <<pgLocks, budget, cfg, call, pc, lastAppliedVersion, consecutiveFailureCount,
                   loc, locker, cyc, hist>>

NextCache ==
    \/ Proc(1)
    \/ \E key \in Publishable : Publish(key)
    \/ \E key \in Publishable : Remove(key)

SpecCache == InitSolo /\ [][NextCache]_vars

-----------------------------------------------------------------------------
(* The resolver on its own: one listing of an arbitrary bucket *)

ResolveConfigs ==
    {[prefix |-> p, skipLock |-> FALSE, exportAfterApply |-> FALSE,
      completedFile |-> CompletedFile, hooks |-> {}] : p \in {<<"schemas">>, <<>>}}

\* FetchCompletedCmd.Run, PlanCmd.Run (main.go:580, 619): resolve the latest
\* completed version.
FindLatestCompleted(i) ==
    /\ pc[i] = "idle"
    /\ \E o \in Outcomes :
        LET r == IF o = "err" THEN NoResult
                 ELSE findLatestCompletedSchema(ListObjectsV2(cfg[i].prefix), cfg[i].prefix,
                                                SchemaFile, cfg[i].completedFile)
        IN  /\ Spend(o)
            /\ cyc' = [cyc EXCEPT ![i] = Traced(i, "list-completed")]
            /\ IF r.err
               THEN /\ loc' = [loc EXCEPT ![i].ret = "error"]
                    /\ pc' = [pc EXCEPT ![i] = "returned"]
               ELSE /\ loc' = [loc EXCEPT ![i].latestSchemaKey = r.key,
                                          ![i].latestVersion = r.version]
                    /\ pc' = [pc EXCEPT ![i] = "completed"]
    /\ UNCHANGED <<s3, pgLocks, cfg, call, lastAppliedVersion, consecutiveFailureCount, locker, hist>>

InitResolve ==
    /\ s3 \in SUBSET ResolveKeys
    /\ pgLocks = {}
    /\ budget = 0
    /\ \E c \in ResolveConfigs : cfg = [i \in Instances |-> c]
    /\ pc = [i \in Instances |-> "idle"]
    /\ lastAppliedVersion = [i \in Instances |-> ""]
    /\ consecutiveFailureCount = [i \in Instances |-> 0]
    /\ loc = [i \in Instances |-> NoLocals]
    /\ locker = [i \in Instances |-> "none"]
    /\ cyc = [i \in Instances |-> NoCycle]
    /\ hist = [applies |-> {}, reclaimed |-> {}, streak |-> [i \in Instances |-> 0],
               listFails |-> [i \in Instances |-> 0],
               fetchFails |-> [i \in Instances |-> 0],
               failedApply |-> [i \in Instances |-> <<>>],
               metrics |-> [i \in Instances |-> NoMetrics]]
    /\ call = NoCall

NextResolve ==
    \/ FindLatestSchema(1)
    \/ FindLatestCompleted(1)

SpecResolve == InitResolve /\ [][NextResolve]_vars

-----------------------------------------------------------------------------
(* The engine's functions called on their own with arguments drawn from a  *)
(* table, as the unit tests call them: a pure function once, the marker    *)
(* functions any number of times on a store that starts empty              *)

\* Version tokens: releases, pre-releases, and two that do not parse.
CompareTokens == {"v9", "v10", "1.9.0", "1.10.0", "1.0.0", "1.0.0-rc", "1.0.0-rc.1",
                  "1.0.0-rc.x", "latest", "v2.x"}

\* Artifact keys: under a prefix, two directories below it, with no
\* directory, and directly under the root.
UnitKeys == {SchemaKey(<<"schemas">>, "v9"), SchemaKey(<<"schemas">>, "v10"),
             <<"schemas", "deep", "v11", SchemaFile>>, <<SchemaFile>>, <<"", SchemaFile>>}

\* Values of --completed-file.
MarkerNames == {CompletedFile, ".done"}

Called(fn, args, result) == [fn |-> fn, args |-> args, result |-> result]

\* compareVersions (main.go:965) on every pair of three tokens.
CallCompareVersions ==
    /\ call = NoCall
    /\ \E a \in CompareTokens, b \in CompareTokens, c \in CompareTokens :
        LET args == <<a, b, c>>
        IN  call' = Called("compareVersions", args,
                           [p \in 1..3 |-> [q \in 1..3 |-> compareVersions(args[p], args[q])]])
    /\ UNCHANGED <<s3, pgLocks, budget, cfg, pc, lastAppliedVersion, consecutiveFailureCount,
                   loc, locker, cyc, hist>>

\* buildCompletionMarkerKey (main.go:1060) on a key, and on its own result.
CallBuildCompletionMarkerKey ==
    /\ call = NoCall
    /\ \E k \in UnitKeys, c \in MarkerNames :
        LET markerKey == buildCompletionMarkerKey(k, c)
        IN  call' = Called("buildCompletionMarkerKey", <<k, c>>,
                           <<markerKey, buildCompletionMarkerKey(markerKey, c)>>)
    /\ UNCHANGED <<s3, pgLocks, budget, cfg, pc, lastAppliedVersion, consecutiveFailureCount,
                   loc, locker, cyc, hist>>

\* Errors the store injects into a call; "" is none.
StoreFaults == {"", "AccessDenied"}

\* HeadObject: the error it returns, "" for none.
HeadObject(key, fault) ==
    IF fault # "" THEN fault ELSE IF key \in s3 THEN "" ELSE "NotFound"

\* A probe that takes every error for an absent marker.
checkMarkerLenient(schemaKey, completedFileName, fault) ==
    LET markerKey == buildCompletionMarkerKey(schemaKey, completedFileName)
    IN  [key |-> markerKey, exists |-> HeadObject(markerKey, fault) = "", err |-> ""]

\* checkCompletionMarker (main.go:1065): the key probed, and the result;
\* strings.Contains on character sequences.
checkCompletionMarker(schemaKey, completedFileName, fault) ==
    LET markerKey == buildCompletionMarkerKey(schemaKey, completedFileName)
        err == HeadObject(markerKey, fault)
    IN  IF err # ""
        THEN IF \E k \in 0..(Len(err) - Len("NotFound")) :
                    SubSeq(Chars(err), k + 1, k + Len("NotFound")) = Chars("NotFound")
             THEN [key |-> markerKey, exists |-> FALSE, err |-> ""]
             ELSE [key |-> markerKey, exists |-> FALSE, err |-> err]
        ELSE [key |-> markerKey, exists |-> TRUE, err |-> ""]

CallCheckCompletionMarker ==
    /\ call.fn \in {"", "checkCompletionMarker", "createCompletionMarker"}
    /\ \E k \in UnitKeys, c \in MarkerNames, fault \in StoreFaults :
        call' = Called("checkCompletionMarker", <<k, c, fault>>, checkCompletionMarker(k, c, fault))
    /\ UNCHANGED <<s3, pgLocks, budget, cfg, pc, lastAppliedVersion, consecutiveFailureCount,
                   loc, locker, cyc, hist>>

\* A marker written beside the schema file's directory.
PutBesideDir(schemaKey, completedFileName) ==
    PathJoin(PathDir(PathDir(schemaKey)), <<completedFileName>>)

\* createCompletionMarker (main.go:1086): the key PutObject is called with.
PutKey(schemaKey, completedFileName) == buildCompletionMarkerKey(schemaKey, completedFileName)

\* createCompletionMarker (main.go:1085): PutObject of an empty object.
CallCreateCompletionMarker ==
    /\ call.fn \in {"", "checkCompletionMarker", "createCompletionMarker"}
    /\ \E k \in UnitKeys, c \in MarkerNames, fault \in StoreFaults :
        LET markerKey == PutKey(k, c)
        IN  /\ s3' = IF fault = "" THEN s3 \cup {markerKey} ELSE s3
            /\ call' = Called("createCompletionMarker", <<k, c, fault>>,
                              [key |-> markerKey, exists |-> FALSE, err |-> fault])
    /\ UNCHANGED <<pgLocks, budget, cfg, pc, lastAppliedVersion, consecutiveFailureCount,
                   loc, locker, cyc, hist>>

\* The fields of HookEnv (main.go:1124), in the order toEnvVars reads them.
HookEnvFields == <<"S3Bucket", "PathPrefix", "SchemaFile", "Version", "Error",
                   "CompletedFile", "AppVersion", "Stdout", "Stderr", "DryRun">>

\* main.go:1140-1168  the variable each field is exported as.
EnvName(field) ==
    CASE field = "S3Bucket"      -> "DB_SCHEMA_SYNC_S3_BUCKET"
      [] field = "PathPrefix"    -> "DB_SCHEMA_SYNC_PATH_PREFIX"
      [] field = "SchemaFile"    -> "DB_SCHEMA_SYNC_SCHEMA_FILE"
      [] field = "Version"       -> "DB_SCHEMA_SYNC_VERSION"
      [] field = "Error"         -> "DB_SCHEMA_SYNC_ERROR"
      [] field = "CompletedFile" -> "DB_SCHEMA_SYNC_COMPLETED_FILE"
      [] field = "AppVersion"    -> "DB_SCHEMA_SYNC_APP_VERSION"
      [] field = "Stdout"        -> "DB_SCHEMA_SYNC_STDOUT"
      [] field = "Stderr"        -> "DB_SCHEMA_SYNC_STDERR"
      [] field = "DryRun"        -> "DB_SCHEMA_SYNC_DRY_RUN"

\* A conversion that exports every field, empty or not.
toEnvVarsAll(h, environ) ==
    environ \o [k \in 1..Len(HookEnvFields) |->
                   <<EnvName(HookEnvFields[k]), h[HookEnvFields[k]]>>]

\* HookEnv.toEnvVars (main.go:1138): os.Environ() followed by NAME=value for
\* every field that is not empty; a variable is the pair <<NAME, value>>.
toEnvVars(h, environ) ==
    environ \o SelectSeq([k \in 1..Len(HookEnvFields) |->
                            <<EnvName(HookEnvFields[k]), h[HookEnvFields[k]]>>],
                         LAMBDA v : v[2] # "")

\* Hook contexts: every field empty or set.
HookContexts ==
    [S3Bucket : {"", "bucket"}, PathPrefix : {"", "schemas/"}, SchemaFile : {"", SchemaFile},
     Version : {"", "v10"}, Error : {"", "exit status 1"}, CompletedFile : {"", CompletedFile},
     AppVersion : {"", "1.0.0"}, Stdout : {"", "out"}, Stderr : {"", "err"},
     DryRun : {"", "plan"}]

\* toEnvVars on a hook context and on what os.Environ() returns, the
\* variables the process was started with.
CallToEnvVars ==
    /\ call = NoCall
    /\ \E h \in HookContexts,
          environ \in {<<>>, << <<"PATH", "/usr/bin">> >>,
                       << <<"PATH", "/usr/bin">>, <<"DB_SCHEMA_SYNC_VERSION", "v9">> >>} :
        call' = Called("toEnvVars", <<h, environ>>, toEnvVars(h, environ))
    /\ UNCHANGED <<s3, pgLocks, budget, cfg, pc, lastAppliedVersion, consecutiveFailureCount,
                   loc, locker, cyc, hist>>

\* The listings: up to MaxListing distinct keys, in any order, of version
\* directories of which two parse to the same version, two differ and one
\* does not parse.
Listings ==
    LET keys == {SchemaKey(<<"schemas">>, t) : t \in {"v1", "v1.0.0", "v9", "v10", "latest"}}
    IN  {l \in UNION {[1..n -> keys] : n \in 0..MaxListing} :
            \A j, k \in 1..Len(l) : l[j] = l[k] => j = k}

\* What findLatestVersion (main.go:899) and findMaxVersion (main.go:930)
\* return for a listing.
ResolveListing(keys) ==
    [latest |-> findLatestVersion(keys, <<"schemas">>, SchemaFile),
     max |-> findMaxVersion([k \in 1..Len(keys) |-> PathBase(PathDir(keys[k]))])]

\* The resolver on a listing and on a permutation of it.
CallFindLatestVersion ==
    /\ call = NoCall
    /\ \E a \in Listings, b \in Listings :
        /\ Len(a) = Len(b)
        /\ {a[k] : k \in 1..Len(a)} = {b[k] : k \in 1..Len(b)}
        /\ call' = Called("findLatestVersion", <<a, b>>, <<ResolveListing(a), ResolveListing(b)>>)
    /\ UNCHANGED <<s3, pgLocks, budget, cfg, pc, lastAppliedVersion, consecutiveFailureCount,
                   loc, locker, cyc, hist>>

InitUnit ==
    /\ s3 = {}
    /\ pgLocks = {}
    /\ budget = 0
    /\ \E c \in ResolveConfigs : cfg = [i \in Instances |-> c]
    /\ pc = [i \in Instances |-> "idle"]
    /\ lastAppliedVersion = [i \in Instances |-> ""]
    /\ consecutiveFailureCount = [i \in Instances |-> 0]
    /\ loc = [i \in Instances |-> NoLocals]
    /\ locker = [i \in Instances |-> "none"]
    /\ cyc = [i \in Instances |-> NoCycle]
    /\ hist = [applies |-> {}, reclaimed |-> {}, streak |-> [i \in Instances |-> 0],
               listFails |-> [i \in Instances |-> 0],
               fetchFails |-> [i \in Instances |-> 0],
               failedApply |-> [i \in Instances |-> <<>>],
               metrics |-> [i \in Instances |-> NoMetrics]]
    /\ call = NoCall

NextUnit ==
    \/ CallCompareVersions
    \/ CallBuildCompletionMarkerKey
    \/ CallCheckCompletionMarker
    \/ CallCreateCompletionMarker
    \/ CallToEnvVars
    \/ CallFindLatestVersion

SpecUnit == InitUnit /\ [][NextUnit]_vars

-----------------------------------------------------------------------------
(* The single-shot commands that only read the store: fetch-completed and  *)
(* plan, run once on an arbitrary bucket                                    *)

\* downloadSchemaFromS3 (main.go:987): GetObject returned the object.
Downloaded(key, fault) == fault = "" /\ key \in s3

NoOutput == [err |-> TRUE, version |-> "", gets |-> <<>>, used |-> <<>>, differ |-> "none"]

\* FetchCompletedCmd.Run (main.go:611): resolve the latest completed version,
\* download its schema file, write it to the output.
CallFetchCompleted ==
    /\ call = NoCall
    /\ \E listFault \in StoreFaults, getFault \in StoreFaults, writeFile \in {"ok", "err"} :
        LET r == IF listFault # "" THEN NoResult
                 ELSE findLatestCompletedSchema(ListObjectsV2(cfg[1].prefix), cfg[1].prefix,
                                                SchemaFile, cfg[1].completedFile)
            out == IF r.err THEN NoOutput
                   ELSE IF ~Downloaded(r.key, getFault) \/ writeFile = "err"
                   THEN [NoOutput EXCEPT !.version = r.version, !.gets = <<r.key>>]
                   ELSE [err |-> FALSE, version |-> r.version, gets |-> <<r.key>>,
                         used |-> r.key, differ |-> "none"]
        IN  call' = Called("fetch-completed", <<listFault, getFault>>, out)
    /\ UNCHANGED <<s3, pgLocks, budget, cfg, pc, lastAppliedVersion, consecutiveFailureCount,
                   loc, locker, cyc, hist>>

\* PlanCmd.Run (main.go:585-598): the current schema is exported.sql, or
\* schema.sql when the download of exported.sql returned an error.
PlanBaseline(r, expFault, getFault) ==
    LET exportedKey == buildExportedSchemaKey(r.key)
    IN  IF Downloaded(exportedKey, expFault)
        THEN [gets |-> <<exportedKey>>, used |-> exportedKey]
        ELSE IF Downloaded(r.key, getFault)
        THEN [gets |-> <<exportedKey, r.key>>, used |-> r.key]
        ELSE [gets |-> <<exportedKey, r.key>>, used |-> <<>>]

\* PlanCmd.Run (main.go:572): resolve the latest completed version, download
\* the current schema, read the local file, run psqldef offline on the two.
CallPlan ==
    /\ call = NoCall
    /\ \E listFault \in StoreFaults, expFault \in StoreFaults, getFault \in StoreFaults,
          readFile \in {"ok", "err"}, exit \in {"ok", "fail"} :
        LET r == IF listFault # "" THEN NoResult
                 ELSE findLatestCompletedSchema(ListObjectsV2(cfg[1].prefix), cfg[1].prefix,
                                                SchemaFile, cfg[1].completedFile)
            b == PlanBaseline(r, expFault, getFault)
            out == IF r.err THEN NoOutput
                   ELSE IF b.used = <<>> \/ readFile = "err"
                   THEN [NoOutput EXCEPT !.version = r.version, !.gets = b.gets]
                   ELSE [err |-> exit = "fail", version |-> r.version, gets |-> b.gets,
                         used |-> b.used, differ |-> exit]
        IN  call' = Called("plan", <<listFault, expFault, getFault>>, out)
    /\ UNCHANGED <<s3, pgLocks, budget, cfg, pc, lastAppliedVersion, consecutiveFailureCount,
                   loc, locker, cyc, hist>>

\* The store holds version directories directly under the prefix, each with
\* or without its schema file, marker and exported snapshot.
InitCommands ==
    /\ s3 \in SUBSET {k \in AllKeys : HasPrefix(k, <<"schemas">>)}
    /\ pgLocks = {}
    /\ budget = 0
    /\ cfg = [i \in Instances |->
                [prefix |-> <<"schemas">>, skipLock |-> FALSE, exportAfterApply |-> FALSE,
                 completedFile |-> CompletedFile, hooks |-> {}]]
    /\ pc = [i \in Instances |-> "idle"]
    /\ lastAppliedVersion = [i \in Instances |-> ""]
    /\ consecutiveFailureCount = [i \in Instances |-> 0]
    /\ loc = [i \in Instances |-> NoLocals]
    /\ locker = [i \in Instances |-> "none"]
    /\ cyc = [i \in Instances |-> NoCycle]
    /\ hist = [applies |-> {}, reclaimed |-> {}, streak |-> [i \in Instances |-> 0],
               listFails |-> [i \in Instances |-> 0],
               fetchFails |-> [i \in Instances |-> 0],
               failedApply |-> [i \in Instances |-> <<>>],
               metrics |-> [i \in Instances |-> NoMetrics]]
    /\ call = NoCall

NextCommands ==
    \/ CallFetchCompleted
    \/ CallPlan

SpecCommands == InitCommands /\ [][NextCommands]_vars

-----------------------------------------------------------------------------
(* The AdvisoryLocker on its own (lock.go), as lock_test.go uses it: each   *)
(* handle has one database session; a handle asks for the lock only while  *)
(* it does not hold it, and may release at any time                        *)

\* What the database, or the connection to it, makes of a query.
QueryOutcomes == {"ok", "err"}

\* An unlock that releases the lock whoever holds it.
AdvisoryUnlockAny(h) == {x \in pgLocks : x[1] # LockIdOf(h)}

\* pg_advisory_unlock (lock.go:53): the session's own hold is released.
AdvisoryUnlock(h) == pgLocks \ {<<LockIdOf(h), h>>}

\* NewAdvisoryLocker (lock.go:21)
CallNewAdvisoryLocker(h) ==
    /\ locker[h] = "none"
    /\ \E o \in QueryOutcomes :
        /\ locker' = [locker EXCEPT ![h] = IF o = "ok" THEN "open" ELSE "none"]
        /\ call' = Called("NewAdvisoryLocker", <<h, o>>,
                          [before |-> pgLocks, ok |-> o = "ok", err |-> o # "ok"])
    /\ UNCHANGED <<s3, pgLocks, budget, cfg, pc, lastAppliedVersion, consecutiveFailureCount,
                   loc, cyc, hist>>

\* AdvisoryLocker.TryLock (lock.go:41)
CallTryLock(h) ==
    /\ locker[h] = "open"
    /\ ~Holds(h)
    /\ \E o \in QueryOutcomes :
        LET acquired == o = "ok" /\ Grantable(h)
        IN  /\ pgLocks' = IF acquired THEN pgLocks \cup {<<LockIdOf(h), h>>} ELSE pgLocks
            /\ call' = Called("TryLock", <<h, o>>,
                              [before |-> pgLocks, ok |-> acquired, err |-> o # "ok"])
    /\ UNCHANGED <<s3, budget, cfg, pc, lastAppliedVersion, consecutiveFailureCount,
                   loc, locker, cyc, hist>>

\* AdvisoryLocker.Unlock (lock.go:51): an error when the query fails or when
\* pg_advisory_unlock answers false.
CallUnlock(h) ==
    /\ locker[h] = "open"
    /\ \E o \in QueryOutcomes :
        LET released == o = "ok" /\ Holds(h)
        IN  /\ pgLocks' = IF o = "ok" THEN AdvisoryUnlock(h) ELSE pgLocks
            /\ call' = Called("Unlock", <<h, o>>,
                              [before |-> pgLocks, ok |-> released, err |-> ~released])
    /\ UNCHANGED <<s3, budget, cfg, pc, lastAppliedVersion, consecutiveFailureCount,
                   loc, locker, cyc, hist>>

\* AdvisoryLocker.Close (lock.go:64)
CallClose(h) ==
    /\ locker[h] = "open"
    /\ pgLocks' = DropSession(h)
    /\ locker' = [locker EXCEPT ![h] = "none"]
    /\ call' = Called("Close", <<h, "ok">>, [before |-> pgLocks, ok |-> TRUE, err |-> FALSE])
    /\ UNCHANGED <<s3, budget, cfg, pc, lastAppliedVersion, consecutiveFailureCount,
                   loc, cyc, hist>>

NextLock ==
    \E h \in Instances :
        \/ CallNewAdvisoryLocker(h)
        \/ CallTryLock(h)
        \/ CallUnlock(h)
        \/ CallClose(h)

SpecLock == InitUnit /\ [][NextLock]_vars

-----------------------------------------------------------------------------
(* Properties *)

\* The positions of runSync between a granted TryLock and the deferred Unlock.
LockedStages == {"plan", "apply", "export", "mark", "unlock"}

InFlight(i) == ~cfg[i].skipLock /\ pc[i] \in LockedStages

MarkerOf(i) == buildCompletionMarkerKey(loc[i].latestSchemaKey, cfg[i].completedFile)

HooksNamed(i, name) == SelectSeq(cyc[i].hooks, LAMBDA h : h.name = name)

InTrace(i, step) == \E k \in 1..Len(cyc[i].trace) : cyc[i].trace[k] = step

\* C1: with locking enabled, at most one instance at a time is between a
\* granted tryAcquire and its release (plan, before-apply hook, apply, export,
\* marker write), whatever the instances' path prefixes and versions; the
\* instance in flight is the one holding the lock.
C1_OneInFlight ==
    /\ \A i, j \in Instances : InFlight(i) /\ InFlight(j) => i = j
    /\ \A i \in Instances : InFlight(i) => Holds(i)

\* C1 witness: an instance is applying while a peer with another path prefix
\* and another version has been refused the lock.
C1_Witness ==
    \E i, j \in Instances :
        /\ cfg[i].prefix # cfg[j].prefix
        /\ pc[i] = "apply"
        /\ pc[j] = "close" /\ loc[j].ret = "noop"

\* C2 (as claimed): while no fault has been injected, no schema key is applied
\* successfully by more than one instance.
C2_NoDuplicateApply ==
    budget = MaxFaults =>
        \A a, b \in hist.applies : a[2] = b[2] => a[1] = b[1]

\* C3: a held lock always belongs to an open session of a process inside its
\* locked region, so a terminated holder leaves it free; and when no other
\* process is inside its locked region a tryAcquire is granted.
C3_CrashFreesLock ==
    /\ \A h \in pgLocks :
          locker[h[2]] = "open" /\ pc[h[2]] \in LockedStages \cup {"close"}
    /\ \A j \in Instances :
          (\A i \in Instances \ {j} : pc[i] \notin LockedStages \cup {"close"})
              => Grantable(j)

\* C3 witness: an instance terminated while holding the lock and another
\* instance holds it now.
C3_Witness ==
    \E i \in hist.reclaimed : \E j \in Instances \ {i} : Holds(j)

\* The skip of main.go:742-745 as seen after it: the cycle ends without error.
Skipped(i) == pc[i] \in {"close", "returned"} /\ loc[i].ret = "noop" /\ InTrace(i, "trylock")

IsMarker(key) == key # <<>> /\ key[Len(key)] = CompletedFile

\* C5: a marker written in a cycle is the marker of the version whose apply
\* succeeded in that cycle; a cycle ending in an error or a skip has written
\* no marker; every marker in the store stands for a successful apply.
C5_MarkerProvesApply ==
    /\ \A i \in Instances :
        /\ \A key \in cyc[i].puts :
              IsMarker(key) =>
                /\ loc[i].applied
                /\ key = MarkerOf(i)
                /\ <<i, loc[i].latestSchemaKey>> \in hist.applies
        /\ loc[i].ret \in {"error", "noop"} =>
              \A key \in cyc[i].puts : ~IsMarker(key)
    /\ \A key \in s3 :
          IsMarker(key) =>
            \E a \in hist.applies : key = buildCompletionMarkerKey(a[2], CompletedFile)

\* C5 witness: a cycle has written the marker of the version it applied.
C5_Witness ==
    \E i \in Instances :
        /\ MarkerOf(i) \in cyc[i].puts
        /\ MarkerOf(i) \in s3
        /\ loc[i].ret = "success"

\* applySchema returned an error in this cycle and runSync is on its way out.
ApplyFailed(i) ==
    /\ loc[i].applyResult.is # "unset"
    /\ ~loc[i].applied
    /\ pc[i] \in {"unlock", "close", "returned"}

\* C6: after a failed apply the cycle has fired the apply-failed hook exactly
\* once, with the version, an error text and the differ's captured output,
\* and returns an error; the cache does not name the version, nothing was
\* exported or marked and the apply-succeeded hook has not fired.
C6_ApplyFailurePath ==
    /\ \A i \in Instances :
        ApplyFailed(i) =>
            /\ Len(HooksNamed(i, "on-apply-failed")) = 1
            /\ LET h == HooksNamed(i, "on-apply-failed")[1]
               IN  /\ h.ran
                   /\ h.Version = loc[i].latestVersion
                   /\ h.Error # ""
                   /\ loc[i].applyResult.is = "set" =>
                        /\ h.Stdout = loc[i].applyResult.Stdout /\ h.Stdout # ""
                        /\ h.Stderr = loc[i].applyResult.Stderr /\ h.Stderr # ""
            /\ loc[i].ret = "error"
            /\ lastAppliedVersion[i] # loc[i].latestVersion
            /\ ~InTrace(i, "export") /\ ~InTrace(i, "mark")
            /\ cyc[i].puts = {}
            /\ HooksNamed(i, "on-apply-succeeded") = <<>>
    /\ \A i \in Instances :
        pc[i] \in {"export", "mark"} => loc[i].applied

\* C6 witness: the differ exited non-zero and left output behind.
C6_Witness ==
    \E i \in Instances :
        /\ ApplyFailed(i)
        /\ loc[i].applyResult = FailedApply
        /\ pc[i] = "returned"

\* C7: a probe that finds the marker of the resolved version ends the cycle
\* at once with success and caches the version; such a cycle has only listed
\* and probed: no download, no session, no lock request, no differ step, no
\* hook, no write.
C7_MarkerExistsNoOp ==
    /\ [](\A i \in Instances :
            (pc[i] = "returned" /\ loc[i].marker = "exists") =>
                /\ cyc[i].trace = <<"list", "head">>
                /\ cyc[i].hooks = <<>>
                /\ cyc[i].puts = {}
                /\ locker[i] = "none"
                /\ loc[i].ret = "noop"
                /\ lastAppliedVersion[i] = loc[i].latestVersion)
    /\ [][\A i \in Instances :
            (pc[i] = "head" /\ MarkerOf(i) \in s3 /\ pc'[i] # "head" /\ budget' = budget)
                => /\ pc'[i] = "returned"
                   /\ loc'[i].marker = "exists"
                   /\ lastAppliedVersion'[i] = loc[i].latestVersion]_vars

\* C7 witness: a process whose cache was empty found the marker a peer wrote.
C7_Witness ==
    \E i \in Instances :
        /\ pc[i] = "returned" /\ loc[i].marker = "exists"
        /\ \E j \in Instances \ {i} : <<j, loc[i].latestSchemaKey>> \in hist.applies
        /\ <<i, loc[i].latestSchemaKey>> \notin hist.applies

\* The stages of a cycle after the marker probe and before the apply returns.
PastProbe == {"get", "connect", "trylock", "plan", "apply"}

\* C8: a single process, restarted at any point, is past the marker probe of
\* a version whose marker is in the store only if that probe failed; so a
\* version it applied and marked is not downloaded or applied again while
\* probes succeed.
C8_NoReapplyAfterRestart ==
    (pc[1] \in PastProbe /\ MarkerOf(1) \in s3) => loc[1].marker = "error"

\* C8 witness: the process applied and marked a version, lost its cache in a
\* restart, and a later cycle ended at the marker it found.
C8_Witness ==
    /\ pc[1] = "returned" /\ loc[1].marker = "exists"
    /\ <<1, loc[1].latestSchemaKey>> \in hist.applies
    /\ MarkerOf(1) \in s3
    /\ cyc[1].trace = <<"list", "head">>

\* What a listing of the store resolves to for process 1 right now.
Resolved == findLatestSchema(1, "ok")

AppliedAndCached(key) ==
    /\ <<1, key>> \in hist.applies
    /\ lastAppliedVersion[1] = Resolved.version

\* Every poll's listing call returns.
Polls == []<>(pc[1] # "idle")

\* C9 (as claimed): if the store's latest version stays v and a cycle applies
\* v, then eventually v is applied, cached and marked.
C9_AppliedCachedMarked ==
    \A key \in AllKeys :
        (Polls /\ <>[](~Resolved.err /\ Resolved.key = key) /\ <>(<<1, key>> \in hist.applies))
            => <>(/\ AppliedAndCached(key)
                  /\ buildCompletionMarkerKey(key, CompletedFile) \in s3)

\* C9 (amended): if the store's latest version stays v, then from some point
\* on v is applied and cached; the marker is written when the marker write
\* of the applying cycle does not fail; a cycle goes past the listing only
\* for a version strictly newer than the cache, so with an unchanged store
\* every later cycle ends at the listing.
C9_AppliedAndCached ==
    /\ \A key \in AllKeys :
          (Polls /\ <>[](~Resolved.err /\ Resolved.key = key)) => <>[]AppliedAndCached(key)
    /\ [][(pc[1] = "mark" /\ pc'[1] # "mark" /\ pc'[1] # "idle" /\ budget' = budget)
             => MarkerOf(1) \in s3']_vars
    /\ [](pc[1] \in PastProbe \cup {"head"} =>
             \/ lastAppliedVersion[1] = ""
             \/ compareVersions(loc[1].latestVersion, lastAppliedVersion[1]) > 0)

\* C9 witness: the version was applied and cached, its marker write failed,
\* and a later cycle over the same store ended at the listing as a no-op.
C9_Witness ==
    /\ pc[1] = "returned" /\ loc[1].ret = "noop"
    /\ cyc[1].trace = <<"list">>
    /\ <<1, loc[1].latestSchemaKey>> \in hist.applies
    /\ lastAppliedVersion[1] = loc[1].latestVersion
    /\ MarkerOf(1) \notin s3

\* A cycle that ended in an error at the listing.
ListFailed(i) ==
    /\ pc[i] = "returned" /\ loc[i].ret = "error"
    /\ cyc[i].trace \in {<<"list">>, <<"list", "on-s3-fetch-error">>}

FetchErrorFired(i) == HooksNamed(i, "on-s3-fetch-error") # <<>>

\* C10 (as claimed): a cycle that failed at the listing has fired the
\* fetch-error hook exactly when it is at least the third consecutive cycle
\* that failed at the listing.
C10_ThirdListingFailure ==
    \A i \in Instances :
        ListFailed(i) => (FetchErrorFired(i) <=> hist.listFails[i] >= maxConsecutiveFailures)

\* C10 (amended): a cycle that failed at the listing has fired the fetch-error
\* hook, once, exactly when it is at least the third failed fetch since the
\* last successful listing, a failed download after that listing counting as
\* one; a successful listing leaves the counter at 0.
C10_ThirdFetchFailure ==
    \A i \in Instances :
        /\ ListFailed(i) =>
            /\ FetchErrorFired(i) <=> hist.streak[i] >= maxConsecutiveFailures
            /\ Len(cyc[i].hooks) <= 1
            /\ hist.listFails[i] >= maxConsecutiveFailures => FetchErrorFired(i)
        /\ pc[i] \in PastProbe \cup {"head"} => consecutiveFailureCount[i] = 0

\* C10 witness: the hook fired again on the failure after the third.
C10_Witness ==
    /\ ListFailed(1) /\ FetchErrorFired(1)
    /\ hist.listFails[1] > maxConsecutiveFailures

\* A cycle that ended in a failed fetch: at the listing or at the download.
FetchFailed(i) ==
    /\ pc[i] = "returned" /\ loc[i].ret = "error"
    /\ ~InTrace(i, "connect") /\ ~InTrace(i, "plan")

\* C11 (as claimed): after k consecutive cycles that each ended in a failed
\* fetch, at the listing or at the download, the failure counter equals k.
C11_CounterCountsFetchFailures ==
    \A i \in Instances :
        FetchFailed(i) => consecutiveFailureCount[i] = hist.fetchFails[i]

\* The steps of a cycle of process i that applies a version, in the order of
\* runSync (main.go:674-819).
StepOrder(i) ==
    <<"list">>
    \o (IF cfg[i].completedFile # "" THEN <<"head">> ELSE <<>>)
    \o <<"get">>
    \o (IF cfg[i].skipLock THEN <<>> ELSE <<"connect", "trylock">>)
    \o <<"plan", "on-before-apply", "apply">>
    \o (IF cfg[i].exportAfterApply THEN <<"export">> ELSE <<>>)
    \o (IF cfg[i].completedFile # "" THEN <<"mark">> ELSE <<>>)
    \o <<"on-apply-succeeded">>
    \o (IF cfg[i].skipLock THEN <<>> ELSE <<"unlock", "close">>)

IsPrefix(a, b) == Len(a) <= Len(b) /\ SubSeq(b, 1, Len(a)) = a

\* C12: the steps of a cycle that applies a version are an initial part of
\* download, lock acquisition, plan, before-apply hook, apply, export, marker
\* write, apply-succeeded hook, unlock, close, in that order; the cache names
\* the version once the apply has succeeded and not before; the before-apply
\* hook fires and the marker is written while the lock is held.
C12_StepOrder ==
    /\ [](\A i \in Instances :
            /\ loc[i].applied =>
                /\ IsPrefix(cyc[i].trace, StepOrder(i))
                /\ lastAppliedVersion[i] = loc[i].latestVersion
            /\ pc[i] \in PastProbe => lastAppliedVersion[i] # loc[i].latestVersion
            /\ pc[i] \in {"apply", "export", "mark"} =>
                /\ IsPrefix(cyc[i].trace, StepOrder(i))
                /\ Holds(i))
    /\ [][\A i \in Instances :
            (\/ pc[i] = "plan" /\ pc'[i] = "apply"
             \/ MarkerOf(i) \in cyc'[i].puts \ cyc[i].puts)
                => Holds(i) /\ Holds(i)']_vars

\* C12 witness: a cycle that applied, exported and marked has run every step
\* and returned.
C12_Witness ==
    \E i \in Instances :
        /\ pc[i] = "returned" /\ loc[i].ret = "success"
        /\ cfg[i].exportAfterApply
        /\ cyc[i].trace = StepOrder(i)
        /\ MarkerOf(i) \in cyc[i].puts

LastTwo(seq) == IF Len(seq) < 2 THEN <<>> ELSE SubSeq(seq, Len(seq) - 1, Len(seq))

\* C13: between cycles a process holds no advisory lock and has no open lock
\* session; a cycle that was granted the lock ends, on every path, with the
\* explicit unlock followed by the close of the session.
C13_ReleasedAtBoundary ==
    \A i \in Instances :
        /\ pc[i] \in {"idle", "returned"} => ~Holds(i) /\ locker[i] = "none"
        /\ (pc[i] = "returned" /\ InTrace(i, "plan")) =>
              LastTwo(cyc[i].trace) = <<"unlock", "close">>
        /\ (pc[i] = "returned" /\ InTrace(i, "connect") /\ ~InTrace(i, "trylock")) =>
              loc[i].ret = "error"

\* C13 witness: a cycle whose apply failed has returned, and a peer has been
\* granted the lock since.
C13_Witness ==
    \E i \in Instances :
        /\ ApplyFailed(i) /\ pc[i] = "returned"
        /\ LastTwo(cyc[i].trace) = <<"unlock", "close">>
        /\ \E j \in Instances \ {i} : Holds(j)

\* C14: a cycle whose apply succeeded ends in success with the version cached
\* and the apply-succeeded hook fired once, whatever the plan, the export, the
\* marker write and the hooks did; the step after the plan is the apply; a
\* hook is run exactly when its command is configured, and a cycle ends in an
\* error only at the listing, the download, the lock or the apply.
C14_BestEffort ==
    /\ [](\A i \in Instances :
            /\ (loc[i].applied /\ pc[i] \in {"unlock", "close", "returned"}) =>
                /\ loc[i].ret = "success"
                /\ lastAppliedVersion[i] = loc[i].latestVersion
                /\ Len(HooksNamed(i, "on-apply-succeeded")) = 1
            /\ (loc[i].applied /\ pc[i] \in {"export", "mark"}) => loc[i].ret = "running"
            /\ \A k \in 1..Len(cyc[i].hooks) :
                 LET h == cyc[i].hooks[k]
                 IN  /\ h.ran <=> h.name \in cfg[i].hooks
                     /\ h.exit = "none" <=> ~h.ran
            /\ loc[i].ret = "error" =>
                 \/ FetchFailed(i)
                 \/ ApplyFailed(i)
                 \/ pc[i] \in {"close", "returned"} /\ ~InTrace(i, "plan"))
    /\ [][\A i \in Instances :
            (pc[i] = "plan" /\ pc'[i] \notin {"plan", "idle"})
                => pc'[i] = "apply" /\ loc'[i].ret = "running"]_vars

\* C14 witness: the export and the marker write failed and a hook exited
\* non-zero, and the cycle returned success.
C14_Witness ==
    /\ pc[1] = "returned" /\ loc[1].ret = "success"
    /\ cfg[1].exportAfterApply
    /\ cyc[1].puts = {}
    /\ (\E k \in 1..Len(cyc[1].hooks) : cyc[1].hooks[k].exit = "fail")

\* A cycle that ended in an error at NewAdvisoryLocker or at TryLock.
LockFailed(i) ==
    /\ loc[i].ret = "error" /\ pc[i] \in {"close", "returned"}
    /\ InTrace(i, "connect") /\ ~InTrace(i, "plan")

C16_LoopNeverStops ==
    /\ [](\A i \in Instances :
            /\ pc[i] = "returned" =>
                 /\ loc[i].ret \in {"success", "noop", "error"}
                 /\ ENABLED Sleep(i)
            /\ pc[i] = "idle" => loc[i] = NoLocals /\ cyc[i] = NoCycle /\ locker[i] = "none")
    /\ [][\A i \in Instances :
            /\ (pc[i] = "returned" /\ pc'[i] # "returned") => pc'[i] = "idle"
            /\ (cyc[i].trace = <<>> /\ cyc'[i].trace # <<>>) => pc[i] = "idle"]_vars
    /\ \A r \in {"success", "noop", "error"} :
          (pc[1] = "returned" /\ loc[1].ret = r) ~> (pc[1] = "idle")
    /\ Polls => []<>(pc[1] = "returned")

\* C16 witness: a cycle is running after a cycle that ended in an error.
C16_Witness ==
    /\ pc[1] = "head"
    /\ hist.fetchFails[1] > 0

\* The keys process 1 is listed, and the version tokens among them: the
\* directory names of the keys whose base name is the schema file.
Listed == {k \in s3 : HasPrefix(k, cfg[1].prefix)}

TokensOf(keys) ==
    {PathBase(PathDir(k)) : k \in {x \in keys : PathBase(x) = SchemaFile}} \ {".", "/"}

Parseable(tokens) == {t \in tokens : NewVersion(t).ok}

\* findLatestSchema has returned a version to runSync.
ResolvedLatest == pc[1] = "head" /\ cyc[1].trace = <<"list">>

C18_ResolutionFailure ==
    (cyc[1].trace = <<"list">> /\ pc[1] \in {"head", "returned"}) =>
        /\ loc[1].ret = "error" <=> Parseable(TokensOf(Listed)) = {}
        /\ loc[1].ret # "error" => loc[1].latestVersion \in Parseable(TokensOf(Listed))

\* C18 witness: resolution succeeded over a listing with an unparseable token.
C18_Witness ==
    /\ ResolvedLatest
    /\ "latest" \in TokensOf(Listed)
    /\ loc[1].latestVersion = "1.0.10"

\* C19 (as claimed): the key the resolver returns is prefix + version +
\* schema file name and is one of the listed keys.
C19_KeyIsListed ==
    ResolvedLatest =>
        /\ loc[1].latestSchemaKey =
              PathJoin(PathJoin(cfg[1].prefix, <<loc[1].latestVersion>>), <<SchemaFile>>)
        /\ loc[1].latestSchemaKey \in Listed

\* The tokens of the directories that hold the schema file and the marker.
CompletedTokens ==
    TokensOf({k \in Listed : buildCompletionMarkerKey(k, cfg[1].completedFile) \in Listed})

Compared == call.fn = "compareVersions"

\* C21: compareVersions returns -1, 0 or 1; on parseable arguments it is a
\* strict total order (reflexive 0, antisymmetric, transitive) that ranks v9
\* below v10, 1.9.0 below 1.10.0 and a pre-release below its release; when an
\* argument does not parse it is the byte order of the strings.
C21_StrictTotalOrder ==
    Compared =>
        LET a == call.args
            r == call.result
            ok(p) == NewVersion(a[p]).ok
            Before(x, y) == \A p, q \in 1..3 : a[p] = x /\ a[q] = y => r[p][q] = -1
        IN  /\ \A p, q \in 1..3 : r[p][q] \in {-1, 0, 1}
            /\ \A p, q \in 1..3 : ok(p) /\ ok(q) => r[p][q] = 0 - r[q][p]
            /\ (\A p \in 1..3 : ok(p)) =>
                   /\ r[1][2] <= 0 /\ r[2][3] <= 0 => r[1][3] <= 0
                   /\ r[1][2] < 0 /\ r[2][3] <= 0 => r[1][3] < 0
            /\ Before("v9", "v10") /\ Before("1.9.0", "1.10.0")
            /\ Before("1.0.0-rc", "1.0.0")
            /\ \A p, q \in 1..3 : ~ok(p) \/ ~ok(q) =>
                   r[p][q] = (IF BytesLess(Chars(a[p]), Chars(a[q])) THEN -1
                              ELSE IF BytesLess(Chars(a[q]), Chars(a[p])) THEN 1 ELSE 0)

\* checkCompletionMarker or createCompletionMarker was the last call.
Probed == call.fn = "checkCompletionMarker"

\* dirname(k) joined with the marker file name.
DirJoin(k, c) == PathDir(k) \o <<c>>

\* C22: the marker key of an artifact key is the directory of the artifact
\* key joined with the marker file name, and the marker key of a marker key
\* is the marker key itself; the probe and the write for an artifact key
\* address this key.
C22_MarkerKey ==
    /\ (call.fn = "buildCompletionMarkerKey") =>
          /\ call.result[1] = DirJoin(call.args[1], call.args[2])
          /\ call.result[2] = call.result[1]
    /\ Probed \/ call.fn = "createCompletionMarker" =>
          call.result.key = DirJoin(call.args[1], call.args[2])

\* C22 witness: the marker key of a nested artifact key, with a marker file
\* name other than the default.
C22_Witness ==
    /\ (call.fn = "buildCompletionMarkerKey")
    /\ call.args = <<(<<"schemas", "deep", "v11", "schema.sql">>), ".done">>
    /\ call.result[1] = <<"schemas", "deep", "v11", ".done">>

\* C23: the probe returns (true, no error) when the marker is present,
\* (false, no error) when it is not found, and an error, with false, on any
\* other failure.
C23_ProbeClassifies ==
    Probed =>
        LET present == DirJoin(call.args[1], call.args[2]) \in s3
            fault == call.args[3]
            r == call.result
        IN  /\ fault = "" /\ present => r.exists /\ r.err = ""
            /\ fault = "" /\ ~present => ~r.exists /\ r.err = ""
            /\ fault # "" => ~r.exists /\ r.err # ""

\* C23 witness: the probe fails for another reason while the marker is present.
C23_Witness ==
    /\ Probed
    /\ DirJoin(call.args[1], call.args[2]) \in s3
    /\ call.args[3] = "AccessDenied"
    /\ call.result.err = "AccessDenied"

\* C24: a probe that follows a successful mark of the same artifact key finds
\* the marker; with one version marked, the probe of another version does
\* not; marking a marked version succeeds and leaves the store as it is, and
\* marking an unmarked one adds its marker and nothing else.
C24_MarkRoundTrip ==
    [][ /\ (call.fn = "createCompletionMarker" /\ call.result.err = "" /\ call'.fn = "checkCompletionMarker"
            /\ call'.args[3] = "") =>
              /\ (call'.args[1] = call.args[1] /\ call'.args[2] = call.args[2])
                    => call'.result.exists
              /\ (s3 = {call.result.key} /\ PathDir(call'.args[1]) # PathDir(call.args[1]))
                    => ~call'.result.exists
        /\ (call'.fn = "createCompletionMarker" /\ call'.args[3] = "") =>
              /\ call'.result.err = ""
              /\ s3' = s3 \cup {DirJoin(call'.args[1], call'.args[2])}
              /\ DirJoin(call'.args[1], call'.args[2]) \in s3 => s3' = s3
      ]_vars

\* C24 witness: v9 was marked, nothing else was, and the probe of v9 finds
\* the marker.
C24_Witness ==
    /\ Probed /\ call.result.exists
    /\ call.args[1] = <<"schemas", "v9", "schema.sql">>
    /\ s3 = {<<"schemas", "v9", "completed">>}

\* C25: the environment of a hook is the process environment, unchanged,
\* followed by one DB_SCHEMA_SYNC_* variable for each field of the context
\* that is not empty, with the field's value, and by nothing else.
C25_HookEnvironment ==
    (call.fn = "toEnvVars") =>
        LET h == call.args[1]
            environ == call.args[2]
            env == call.result
            added == SubSeq(env, Len(environ) + 1, Len(env))
            Adds(f) == {k \in 1..Len(added) : added[k][1] = EnvName(f)}
            fields == {HookEnvFields[k] : k \in 1..Len(HookEnvFields)}
        IN  /\ Len(env) >= Len(environ)
            /\ SubSeq(env, 1, Len(environ)) = environ
            /\ \A f \in fields :
                  IF h[f] = "" THEN Adds(f) = {}
                  ELSE Cardinality(Adds(f)) = 1 /\ \A k \in Adds(f) : added[k][2] = h[f]
            /\ \A k \in 1..Len(added) : \E f \in fields : added[k][1] = EnvName(f)
            /\ (\A f \in fields : h[f] = "") => env = environ

\* C25 witness: a context with only the version and the error set, in a
\* process environment that has variables of its own.
C25_Witness ==
    /\ (call.fn = "toEnvVars")
    /\ call.args[2] = << <<"PATH", "/usr/bin">> >>
    /\ call.result = << <<"PATH", "/usr/bin">>, <<"DB_SCHEMA_SYNC_VERSION", "v10">>,
                        <<"DB_SCHEMA_SYNC_ERROR", "exit status 1">> >>

\* The hook commands process i has run in its current cycle, with their contexts.
Fired(i) == {cyc[i].hooks[k] : k \in {j \in 1..Len(cyc[i].hooks) : cyc[i].hooks[j].ran}}

Completed == {t \in {"v9", "v10", "latest"} :
                 {SchemaKey(<<"schemas">>, t),
                  buildCompletionMarkerKey(SchemaKey(<<"schemas">>, t), CompletedFile)} \subseteq s3}

IsNewestCompleted(t) ==
    /\ t \in Parseable(Completed)
    /\ \A x \in Parseable(Completed) : compareVersions(x, t) <= 0

ExportedOf(t) == <<"schemas", t, ExportedFile>>

\* C27 (as claimed): fetch-completed fails when no version is completed;
\* when it succeeds, what it outputs belongs to the newest completed version
\* and is the exported snapshot if the directory has one, the schema file
\* otherwise.
C27_FetchCompletedOutput ==
    (call.fn = "fetch-completed") =>
        /\ Parseable(Completed) = {} => call.result.err
        /\ ~call.result.err =>
              /\ IsNewestCompleted(call.result.version)
              /\ call.result.used =
                    IF ExportedOf(call.result.version) \in s3
                    THEN ExportedOf(call.result.version)
                    ELSE SchemaKey(<<"schemas">>, call.result.version)

\* C28 (as claimed): plan fails when no version is completed; when it runs
\* the differ, the baseline is the exported snapshot of the newest completed
\* version if the directory has one and its schema file otherwise; it holds
\* no lock, opens no session and requests nothing from the store but reads.
C28_PlanBaseline ==
    (call.fn = "plan") =>
        /\ Parseable(Completed) = {} => call.result.err /\ call.result.differ = "none"
        /\ call.result.differ # "none" =>
              /\ IsNewestCompleted(call.result.version)
              /\ call.result.used =
                    IF ExportedOf(call.result.version) \in s3
                    THEN ExportedOf(call.result.version)
                    ELSE SchemaKey(<<"schemas">>, call.result.version)
        /\ pgLocks = {} /\ \A i \in Instances : locker[i] = "none" /\ cyc[i].puts = {}

\* Process i has taken the first step of a cycle and resolved a version.
ResolvedStep(i) ==
    /\ pc[i] = "idle" /\ cyc'[i].trace = <<"list">>
    /\ loc'[i].latestVersion # ""

\* C29: a cycle of a process whose cache holds v and that resolves a version
\* not newer than v ends as a no-op at the comparison: it has only listed, it
\* fired no hook and wrote nothing, and the cache is unchanged; and an apply
\* starts only for a version newer than the cached one.
C29_CacheShortCircuit ==
    [][ \A i \in Instances :
          /\ (/\ ResolvedStep(i)
              /\ lastAppliedVersion[i] # ""
              /\ compareVersions(loc'[i].latestVersion, lastAppliedVersion[i]) <= 0) =>
                 /\ pc'[i] = "returned" /\ loc'[i].ret = "noop"
                 /\ cyc'[i] = [NoCycle EXCEPT !.trace = <<"list">>]
                 /\ loc'[i].marker = "unchecked"
                 /\ lastAppliedVersion'[i] = lastAppliedVersion[i]
                 /\ pgLocks' = pgLocks /\ s3' = s3 /\ locker' = locker
          /\ pc'[i] \in PastProbe \cup {"head"} =>
                 \/ lastAppliedVersion'[i] = ""
                 \/ compareVersions(loc'[i].latestVersion, lastAppliedVersion'[i]) > 0
      ]_vars

\* C29 witness: the process applied v10 and failed to write its marker, v10
\* was withdrawn, and the cycle that resolves v9 ends at the comparison.
C29_Witness ==
    /\ pc[1] = "returned" /\ loc[1].ret = "noop" /\ cyc[1].trace = <<"list">>
    /\ lastAppliedVersion[1] = "v10" /\ loc[1].latestVersion = "v9"
    /\ <<"schemas", "v10", "completed">> \notin s3

\* C30: the cache of a running process is empty or a version token that
\* parses; it changes only to a version strictly newer than the one it held,
\* and is emptied only by a restart; the two versions runSync compares both
\* parse.
C30_CacheOnlyAdvances ==
    [][ \A i \in Instances :
          /\ lastAppliedVersion[i] = "" \/ NewVersion(lastAppliedVersion[i]).ok
          /\ (lastAppliedVersion'[i] # lastAppliedVersion[i]
              /\ ~(budget' < budget /\ pc'[i] = "idle" /\ cyc'[i] = NoCycle /\ loc'[i] = NoLocals)) =>
                /\ NewVersion(lastAppliedVersion'[i]).ok
                /\ lastAppliedVersion[i] # "" =>
                      compareVersions(lastAppliedVersion'[i], lastAppliedVersion[i]) > 0
          /\ ResolvedStep(i) => NewVersion(loc'[i].latestVersion).ok
      ]_vars

\* C30 witness: the cache moved from v9 to v10.
C30_Witness ==
    /\ lastAppliedVersion[1] = "v10"
    /\ \E k \in hist.applies : k = <<1, SchemaKey(<<"schemas">>, "v9")>>
    /\ \E k \in hist.applies : k = <<1, SchemaKey(<<"schemas">>, "v10")>>

\* C31: a cycle whose probe of the marker failed with an error other than
\* not-found does not end there: the marker counts as absent, the cache is
\* left alone and the cycle goes on to the download, and from there to the
\* lock and the apply, whether or not the marker is in the store.
C31_ProbeErrorContinues ==
    \A i \in Instances :
        loc[i].marker = "error" =>
            /\ pc[i] = "get" \/ InTrace(i, "get")
            /\ pc[i] = "get" => loc[i].ret = "running"
            /\ loc[i].applied => InTrace(i, "apply")

\* C31 witness: a version whose marker is in the store has been applied
\* again in a cycle whose probe failed.
C31_Witness ==
    /\ loc[1].marker = "error" /\ loc[1].applied
    /\ MarkerOf(1) \in s3
    /\ cyc[1].puts = {}

\* The apply of this cycle of process i has failed.
ApplyFailedIn(i) == InTrace(i, "apply") /\ ~loc[i].applied /\ loc[i].ret = "error"

\* The cycle of process i has resolved the version whose apply failed last.
Retrying(i) == hist.failedApply[i] # <<>> /\ loc[i].latestSchemaKey = hist.failedApply[i]

\* What a failed apply leaves behind: the failure counter at 0, the cache not
\* covering the version, nothing written, and the before-apply and
\* apply-failed hooks as the only ones of the cycle.
FailedApplyLeaves(i) ==
    ApplyFailedIn(i) =>
        /\ consecutiveFailureCount[i] = 0
        /\ ~NotNewer(i, loc[i].latestVersion)
        /\ cyc[i].puts = {}
        /\ ([k \in 1..Len(cyc[i].hooks) |-> cyc[i].hooks[k].name]) = <<"on-before-apply", "on-apply-failed">>
        /\ InTrace(i, "get") /\ InTrace(i, "plan")
        /\ ~cfg[i].skipLock => InTrace(i, "trylock")

\* C32 (as claimed): a failed apply leaves the failure counter at 0 and fires
\* no fetch-error hook, and every later cycle of the process that resolves the
\* version goes on to download, lock, plan and apply it again: none ends as a
\* no-op.
C32_RetriedEveryCycle ==
    \A i \in Instances :
        /\ FailedApplyLeaves(i)
        /\ Retrying(i) => loc[i].ret # "noop"

\* C32 (amended): a failed apply leaves the failure counter at 0 and fires no
\* fetch-error hook, and a later cycle of the process that resolves the
\* version is not stopped by the cache as long as the marker of the version
\* has not been found: it ends as a no-op only when its probe finds the
\* marker in the store, or when the probe of an earlier cycle found it and
\* put the version in the cache.
C32_RetriedUnlessMarked ==
    \A i \in Instances :
        /\ FailedApplyLeaves(i)
        /\ (Retrying(i) /\ loc[i].ret = "noop") =>
              /\ MarkerOf(i) \in s3
              /\ \/ loc[i].marker = "exists"
                 \/ loc[i].marker = "unchecked" /\ lastAppliedVersion[i] = loc[i].latestVersion
        /\ (Retrying(i) /\ pc[i] = "returned" /\ loc[i].ret # "noop") =>
              \/ InTrace(i, "apply")
              \/ loc[i].ret = "error" /\ ~InTrace(i, "plan")

\* C32 witness: with the store unchanged and no fault but a failed apply, the
\* next cycle has downloaded the version, taken the lock, fired the
\* before-apply hook and is about to apply it again.
C32_Witness ==
    /\ Retrying(1) /\ pc[1] = "apply" /\ budget = SoloFaults - 1
    /\ s3 = InitialKeys /\ consecutiveFailureCount[1] = 0
    /\ cyc[1].trace = <<"list", "head", "get", "connect", "trylock", "plan", "on-before-apply">>

\* C33: a process started with --skip-lock opens no lock connection, never
\* asks for the lock and never holds it, and none of its cycles ends as a
\* no-op after the download (the skip of a lock already held).
C33_SkipLockNoLocking ==
    \A i \in Instances :
        cfg[i].skipLock =>
            /\ locker[i] = "none" /\ ~Holds(i)
            /\ pc[i] \notin {"connect", "trylock", "unlock", "close"}
            /\ \A step \in {"connect", "trylock", "unlock", "close"} : ~InTrace(i, step)
            /\ loc[i].ret = "noop" => ~InTrace(i, "get")

\* C33 witness: two processes started with --skip-lock are in the apply step
\* for the same version at the same time.
C33_Witness ==
    /\ \A i \in Instances : cfg[i].skipLock /\ pc[i] = "apply"
    /\ loc[1].latestSchemaKey = loc[2].latestSchemaKey
    /\ pgLocks = {}

\* The handle of the call, and what it held when the call was made.
Caller == call.args[1]

\* C34: Unlock on a handle that does not hold the lock returns an error and
\* changes nothing; no Unlock releases the lock of another handle; after an
\* Unlock that succeeded the lock is free for every handle; and TryLock
\* acquires exactly when no other handle holds the lock.
C34_UnlockOnlyOwn ==
    /\ call.fn = "Unlock" =>
          /\ <<LockIdOf(Caller), Caller>> \notin call.result.before =>
                 call.result.err /\ pgLocks = call.result.before
          /\ \A x \in call.result.before : x[2] # Caller => x \in pgLocks
          /\ ~call.result.err =>
                /\ (<<LockIdOf(Caller), Caller>> \in call.result.before)
                /\ pgLocks = {}
                /\ \A g \in Instances : Grantable(g)
    /\ (call.fn = "TryLock" /\ ~call.result.err) =>
          /\ call.result.ok <=> \A x \in call.result.before : x[2] = Caller
          /\ call.result.ok <=> Holds(Caller)
    /\ Cardinality(pgLocks) <= 1

\* C34 witness: a handle that does not hold the lock asked to release it
\* while another handle holds it.
C34_Witness ==
    /\ call.fn = "Unlock" /\ call.args = <<2, "ok">> /\ call.result.err
    /\ pgLocks = {<<AdvisoryLockID, 1>>}

\* The place of a step in the cycle of process i (0 when it has not happened).
StepAt(i, step) ==
    IF InTrace(i, step) THEN CHOOSE k \in 1..Len(cyc[i].trace) : cyc[i].trace[k] = step ELSE 0

\* C35: a cycle uploads a snapshot only with export enabled and after its
\* apply succeeded, at dirname(artifact key) + exported.sql; the upload comes
\* before the marker of the cycle is written, so a snapshot uploaded by the
\* cycle is in the store whenever its marker is; and every snapshot in the
\* store belongs to a version applied by a process with export enabled.
C35_SnapshotBeforeMarker ==
    /\ \A i \in Instances :
          /\ InTrace(i, "export") =>
                /\ cfg[i].exportAfterApply /\ loc[i].applied
                /\ StepAt(i, "apply") < StepAt(i, "export")
                /\ InTrace(i, "mark") => StepAt(i, "export") < StepAt(i, "mark")
          /\ \A k \in cyc[i].puts :
                PathBase(k) = ExportedFile =>
                    /\ k = (buildExportedSchemaKey(loc[i].latestSchemaKey))
                    /\ k = PathJoin(PathDir(loc[i].latestSchemaKey), <<"exported.sql">>)
                    /\ InTrace(i, "export")
                    /\ k \in s3
          /\ (pc[i] = "mark" /\ cfg[i].exportAfterApply) => InTrace(i, "export")
    /\ \A k \in s3 :
          PathBase(k) = ExportedFile =>
              \E a \in hist.applies : k = buildExportedSchemaKey(a[2]) /\ cfg[a[1]].exportAfterApply

\* C35 witness: the cycle that applied v9 uploaded the snapshot and then
\* wrote the marker; both are in the store.
C35_Witness ==
    /\ cyc[1].puts = {<<"schemas", "v9", "exported.sql">>, <<"schemas", "v9", "completed">>}
    /\ cyc[1].puts \subseteq s3
    /\ StepAt(1, "export") < StepAt(1, "mark")

\* C36: every hook context of a cycle has the base fields of the process and,
\* beyond them, only what its own trigger sets: before-apply the version and
\* the output of the dry run; apply-succeeded the version alone;
\* apply-failed the version, the error and the differ's captured output but
\* no dry-run DDL; fetch-error the error and, after a failed download, the
\* version; and a cycle that has just started has no context at all.
C36_HookContextFresh ==
    \A i \in Instances :
        /\ \A h \in {cyc[i].hooks[k] : k \in 1..Len(cyc[i].hooks)} :
              /\ h.PathPrefix = cfg[i].prefix
              /\ h.name = "on-before-apply" =>
                    /\ h.Version = loc[i].latestVersion /\ h.Version # ""
                    /\ h.DryRun = loc[i].dryRunOutput
                    /\ h.Error = "" /\ h.Stdout = "" /\ h.Stderr = ""
              /\ h.name = "on-apply-succeeded" =>
                    /\ h.Version = loc[i].latestVersion /\ h.Version # ""
                    /\ h.Error = "" /\ h.Stdout = "" /\ h.Stderr = "" /\ h.DryRun = ""
              /\ h.name = "on-apply-failed" =>
                    /\ h.Version = loc[i].latestVersion /\ h.Version # ""
                    /\ h.Error # "" /\ h.DryRun = ""
                    /\ h.Stdout = (IF loc[i].applyResult.is = "set"
                                   THEN loc[i].applyResult.Stdout ELSE "")
                    /\ h.Stderr = (IF loc[i].applyResult.is = "set"
                                   THEN loc[i].applyResult.Stderr ELSE "")
              /\ h.name = "on-s3-fetch-error" =>
                    /\ h.Error # "" /\ h.Stdout = "" /\ h.Stderr = "" /\ h.DryRun = ""
                    /\ h.Version \in {"", loc[i].latestVersion}
        /\ pc[i] = "idle" => cyc[i].hooks = <<>>

\* C36 witness: in one cycle the before-apply hook got the DDL of the dry
\* run and the apply-failed hook, fired after it, the differ's output and no
\* DDL.
C36_Witness ==
    /\ ([k \in 1..Len(cyc[1].hooks) |-> cyc[1].hooks[k].name]) = <<"on-before-apply", "on-apply-failed">>
    /\ cyc[1].hooks[1].DryRun = "ALTER TABLE" /\ cyc[1].hooks[1].ran
    /\ cyc[1].hooks[2].DryRun = "" /\ cyc[1].hooks[2].Stderr # "" /\ cyc[1].hooks[2].ran

\* What the cycle of process i has added to the counters.
Added(i) == hist.metrics[i]

\* C37: when a cycle returns it has added exactly one fetch attempt and at
\* most one fetch error, at most one apply attempt, and as many apply
\* attempts as apply successes and apply errors together; a success only if
\* the apply succeeded and an error only if it failed; and no apply attempt
\* when it ended as a no-op or failed before the apply step.
C37_MetricsConsistent ==
    \A i \in Instances :
        /\ Added(i).apply = Added(i).applySuccess + Added(i).applyError
        /\ Added(i).s3FetchError <= Added(i).s3Fetch
        /\ pc[i] # "idle" =>
              /\ Added(i).s3Fetch = 1
              /\ Added(i).apply <= 1
              /\ Added(i).apply = (IF InTrace(i, "apply") THEN 1 ELSE 0)
              /\ Added(i).applySuccess = (IF loc[i].applied THEN 1 ELSE 0)
              /\ Added(i).applyError = (IF ApplyFailedIn(i) THEN 1 ELSE 0)
        /\ (pc[i] = "returned" /\ (loc[i].ret = "noop" \/ ~InTrace(i, "plan"))) =>
              Added(i).apply = 0
        /\ (pc[i] = "returned" /\ loc[i].ret = "error" /\ ~InTrace(i, "connect")
              /\ ~InTrace(i, "plan")) =>
              Added(i).s3FetchError = 1

\* C37 witness: a cycle has returned after a failed apply, with one fetch
\* attempt, one apply attempt and one apply error added.
C37_Witness ==
    /\ pc[1] = "returned" /\ ApplyFailedIn(1)
    /\ Added(1) = [NoMetrics EXCEPT !.s3Fetch = 1, !.apply = 1, !.applyError = 1]

\* C38: for two listings that are permutations of each other,
\* findMaxVersion returns the same version and findLatestVersion the same
\* version and key.
C38_OrderIndependent ==
    (call.fn = "findLatestVersion") => call.result[1] = call.result[2]

\* C39: compareVersions has no comparison cycles over all strings, parseable
\* or not: a < b and b < c imply a < c.
C39_NoComparisonCycles ==
    Compared =>
        LET r == call.result
        IN  r[1][2] < 0 /\ r[2][3] < 0 => r[1][3] < 0

====
